---- MODULE Spec2Model ----
(***************************************************************************)
(* A model of the podcast pipeline of aesher9o1/bubble: the emotion-tag    *)
(* parser and the multi-segment speech assembly of f5tts.py, the           *)
(* background mixer and the script of main.py, the encode functions of     *)
(* video_clipper.py and the retry loop of youtube_uploader.py.  Each part  *)
(* has its own specification; the variables of the other parts stay idle.  *)
(*                                                                         *)
(* A text is a sequence of atoms.  An atom is one character ("<", ">",     *)
(* "/", " ", ".", "-") or an indivisible run of word characters            *)
(* ("silence", "hi", the digits "2" and "5").  No word atom is a prefix    *)
(* of another, so two sequences of word atoms spell the same string        *)
(* exactly when they are equal.                                            *)
(***************************************************************************)
EXTENDS Integers, Sequences, FiniteSets, TLC

VARIABLES
    doc,                 \* the pieces the transcript was written from (input)
    text,                \* the transcript handed to the program
    segments,            \* parse_tagged_text's result
    ppc,                 \* position of a parser run: "start", "parsed"
    emotion_files,       \* the labels with a file data/emotions/{label}.mp3
    _model,              \* f5tts._model: "None" or "loaded"
    _vocoder,            \* f5tts._vocoder: "None" or "loaded"
    pc,                  \* position of generate_emotion_audio
    idx,                 \* the segment the for loop is at (1-based)
    all_audio_segments,  \* the buffers appended so far
    sample_rate,         \* the local sample_rate
    exc,                 \* the exception generate_emotion_audio is raising
    output_file,         \* what sf.write left at output_path
    loaded,              \* history: load_model_resources returned in this job
    produced,            \* history: what each processed segment contributed
    podcast,             \* merge_audio_with_melody: the speech, one frame per ms
    melody,              \* merge_audio_with_melody: the melody, one frame per ms
    mpc,                 \* position of merge_audio_with_melody: "start", "done"
    merge,               \* what merge_audio_with_melody computed and exported
    probe,               \* what "ffmpeg -encoders" and "nvidia-smi" do on this host
    GPU_CONFIG,          \* video_clipper.GPU_CONFIG
    vpc,                 \* position of video_clipper: "import", "ready", "called"
    call,                \* the last encode call: its inputs, its ffmpeg command
    upc,                 \* position of upload_video: "start", "loop", "returned", "raised"
    response,            \* _resumable_upload's local response
    error,               \* _resumable_upload's local error
    retry,               \* _resumable_upload's local retry
    upload,              \* how upload_video ended: the value returned or raised
    attempts,            \* history: what the next_chunk calls did, by kind
    stage,               \* position of __main__: the stage to run next
    file_name,           \* __main__'s random file_name
    files,               \* the files under output/
    ran,                 \* history: the stages started, in order
    sent,                \* history: the files handed to Slack
    failure,             \* the exception that ended __main__
    argv,                \* waveform.py: the command line
    wpc,                 \* position of waveform.main: "start", "parsed", "checked", "exited"
    exit_status,         \* waveform.py: the exit status of the process, -1 while it runs
    video_out,           \* waveform.py: the video file written, or "none"
    slack_args,          \* send_audio_file's arguments: file_path, file_uploads, initial_comment
    spc,                 \* position of send_audio_file: "start", "checked", "returned", "raised"
    slack_calls,         \* history: the files_upload_v2 calls made, in order
    slack_raised,        \* the exception send_audio_file raised, or "none"
    background_dir,      \* audio_clipper: the lengths (ms) of the audio files in data/background
    duration_sec,        \* audio_clipper: the duration asked for, in seconds
    cpc,                 \* position of get_random_audio_segment: "start", "loaded", "returned", "raised"
    clip,                \* get_random_audio_segment's locals, what it exported and what it raised
    hpc,                 \* position of the shorts calls: "start", "probed", "extracted", "converted", "done", "raised"
    shorts,              \* the shorts call under way: its inputs and the duration of each file it wrote
    title_file,          \* rss_reader: latest_title.json, "<absent>", "<corrupt>" or the title it holds
    rss,                 \* the last get_latest_article call: the fetch, the feed, the file before it, the value returned
    last_returned,       \* history: the title of the article returned most recently, "none" before the first
    handle_calls         \* history: the calls made on the TTS handles, each with the handles before and after

pvars == <<doc, text, segments, ppc>>
jvars == <<emotion_files, _model, _vocoder, pc, idx, all_audio_segments,
           sample_rate, exc, output_file, loaded, produced>>
mvars == <<podcast, melody, mpc, merge>>
vvars == <<probe, GPU_CONFIG, vpc, call>>
uvars == <<upc, response, error, retry, upload, attempts>>
gvars == <<stage, file_name, files, ran, sent, failure>>
wvars == <<argv, wpc, exit_status, video_out>>
svars == <<slack_args, spc, slack_calls, slack_raised>>
cvars == <<background_dir, duration_sec, cpc, clip>>
hvars == <<hpc, shorts>>
rvars == <<title_file, rss, last_returned>>
kvars == <<handle_calls>>
xvars == <<wvars, svars, cvars, hvars, rvars, kvars>>
beside_wvars == <<svars, cvars, hvars, rvars, kvars>>
beside_svars == <<wvars, cvars, hvars, rvars, kvars>>
beside_cvars == <<wvars, svars, hvars, rvars, kvars>>
beside_hvars == <<wvars, svars, cvars, rvars, kvars>>
beside_rvars == <<wvars, svars, cvars, hvars, kvars>>
beside_kvars == <<wvars, svars, cvars, hvars, rvars>>
vars == <<doc, text, segments, ppc, emotion_files, _model, _vocoder, pc, idx,
          all_audio_segments, sample_rate, exc, output_file, loaded, produced,
          podcast, melody, mpc, merge, probe, GPU_CONFIG, vpc, call, upc,
          response, error, retry, upload, attempts, stage, file_name, files,
          ran, sent, failure, argv, wpc, exit_status, video_out,
          slack_args, spc, slack_calls, slack_raised,
          background_dir, duration_sec, cpc, clip,
          hpc, shorts,
          title_file, rss, last_returned,
          handle_calls>>

(***************************************************************************)
(* Bounds of the model.                                                    *)
(***************************************************************************)
MaxPieces == 3
MaxJobPieces == 3
MaxAudioMs == 9

(***************************************************************************)
(* Characters.                                                             *)
(***************************************************************************)
DigitAtoms == {"2", "5"}
WordAtoms == {"silence", "neutral", "scared", "hi"} \cup DigitAtoms

\* \w of the pattern
IsWord(c) == c \in WordAtoms

\* what str.strip() removes
IsSpace(c) == c = " "

NEUTRAL == <<"neutral">>
SILENCE == <<"silence">>

\* text[a:b], 0-based, half-open
Slice(t, a, b) == SubSeq(t, a + 1, b)

\* text[i], 0-based
At(t, i) == t[i + 1]

(***************************************************************************)
(* str.strip()                                                             *)
(***************************************************************************)
RECURSIVE lstrip(_)
lstrip(s) ==
    IF s = <<>> THEN <<>>
    ELSE IF IsSpace(Head(s)) THEN lstrip(Tail(s)) ELSE s

RECURSIVE rstrip(_)
rstrip(s) ==
    IF s = <<>> THEN <<>>
    ELSE IF IsSpace(s[Len(s)]) THEN rstrip(SubSeq(s, 1, Len(s) - 1)) ELSE s

strip(s) == rstrip(lstrip(s))

(***************************************************************************)
(* The pattern <(\w+)>(.*?)</\1> under re.DOTALL.                           *)
(***************************************************************************)
NoMatch == [found |-> FALSE]

\* the end of the greedy \w+ run that starts at i
RECURSIVE WordRunEnd(_, _)
WordRunEnd(t, i) ==
    IF i < Len(t) /\ IsWord(At(t, i)) THEN WordRunEnd(t, i + 1) ELSE i

\* a closing tag of any label: </\w+> in place of </\1>
CloseAtAnyLabel(t, e, label) ==
    LET n == Len(label) IN
    /\ e + n + 3 <= Len(t)
    /\ At(t, e) = "<"
    /\ At(t, e + 1) = "/"
    /\ \A k \in (e + 2)..(e + 1 + n) : IsWord(At(t, k))
    /\ At(t, e + 2 + n) = ">"

\* </\1> matches at e
CloseAt(t, e, label) ==
    LET n == Len(label) IN
    /\ e + n + 3 <= Len(t)
    /\ At(t, e) = "<"
    /\ At(t, e + 1) = "/"
    /\ Slice(t, e + 2, e + 2 + n) = label
    /\ At(t, e + 2 + n) = ">"

\* a greedy (.*): the last place at or after e where </\1> matches, or -1
FindCloseGreedy(t, e, label) ==
    LET ends == {k \in e..Len(t) : CloseAt(t, k, label)}
    IN  IF ends = {} THEN -1 ELSE CHOOSE k \in ends : \A j \in ends : j <= k

\* the lazy (.*?): the first place at or after e where </\1> matches, or -1
RECURSIVE FindClose(_, _, _)
FindClose(t, e, label) ==
    IF e + Len(label) + 3 > Len(t) THEN -1
    ELSE IF CloseAt(t, e, label) THEN e
    ELSE FindClose(t, e + 1, label)

\* the match of the pattern that starts exactly at s, if any
MatchAt(t, s) ==
    IF ~(s < Len(t) /\ At(t, s) = "<") THEN NoMatch
    ELSE LET le == WordRunEnd(t, s + 1) IN
         IF ~(le > s + 1 /\ le < Len(t) /\ At(t, le) = ">") THEN NoMatch
         ELSE LET label == Slice(t, s + 1, le)
                  e == FindClose(t, le + 1, label)
              IN  IF e < 0 THEN NoMatch
                  ELSE [found |-> TRUE, start |-> s,
                        end |-> e + Len(label) + 3,
                        group1 |-> label,
                        group2 |-> Slice(t, le + 1, e)]

\* pattern.search(text, pos): the leftmost match starting at or after pos
RECURSIVE re_search(_, _)
re_search(t, pos) ==
    IF pos >= Len(t) THEN NoMatch
    ELSE LET m == MatchAt(t, pos) IN
         IF m.found THEN m ELSE re_search(t, pos + 1)

\* re.finditer(pattern, text, re.DOTALL): the non-overlapping matches, in order
RECURSIVE finditer(_, _)
finditer(t, pos) ==
    LET m == re_search(t, pos) IN
    IF m.found THEN <<m>> \o finditer(t, m.end) ELSE <<>>

(***************************************************************************)
(* parse_tagged_text                                                       *)
(***************************************************************************)
\* the for loop over the matches, from the i-th match on: the segments and
\* last_end it leaves
RECURSIVE ParseLoop(_, _, _, _, _)
ParseLoop(t, ms, i, last_end, segs) ==
    IF i > Len(ms) THEN [segments |-> segs, last_end |-> last_end]
    ELSE LET m == ms[i]
             before_text == strip(Slice(t, last_end, m.start))
             segs1 == IF m.start > last_end /\ before_text # <<>>
                      THEN Append(segs, <<NEUTRAL, before_text>>)
                      ELSE segs
             segs2 == Append(segs1, <<m.group1, strip(m.group2)>>)
         IN  ParseLoop(t, ms, i + 1, m.end, segs2)

\* a parser that forgets the text after the last tag
RemainingDropped(t, last_end, segs) == segs

\* a parser without the "if remaining_text" test
RemainingBlankKept(t, last_end, segs) ==
    IF last_end < Len(t)
    THEN Append(segs, <<NEUTRAL, strip(Slice(t, last_end, Len(t)))>>)
    ELSE segs

\* "Add any remaining text as neutral"
Remaining(t, last_end, segs) ==
    IF last_end < Len(t) /\ strip(Slice(t, last_end, Len(t))) # <<>>
    THEN Append(segs, <<NEUTRAL, strip(Slice(t, last_end, Len(t)))>>)
    ELSE segs

parse_tagged_text(t) ==
    LET loop == ParseLoop(t, finditer(t, 0), 1, 0, <<>>)
    IN  Remaining(t, loop.last_end, loop.segments)

(***************************************************************************)
(* The process-wide model handles.                                         *)
(***************************************************************************)
LoadOutcomes == {"ok", "load_model raises", "load_vocoder raises"}

\* load_model_resources(), r being what the two loaders do
load_model_resources(m, v, r) ==
    IF m # "None" THEN [model |-> m, vocoder |-> v, raised |-> FALSE]
    ELSE IF r = "load_model raises" THEN [model |-> m, vocoder |-> v, raised |-> TRUE]
    ELSE IF r = "load_vocoder raises" THEN [model |-> "loaded", vocoder |-> v, raised |-> TRUE]
    ELSE [model |-> "loaded", vocoder |-> "loaded", raised |-> FALSE]

\* an unload that returns without clearing the handles
unload_model_resources_kept(m, v) == [model |-> m, vocoder |-> v]

\* unload_model_resources()
unload_model_resources(m, v) ==
    IF m = "None" THEN [model |-> m, vocoder |-> v]
    ELSE [model |-> "None", vocoder |-> "None"]

(***************************************************************************)
(* merge_audio_with_melody.  An AudioSegment is a sequence of frames, one  *)
(* per millisecond; len(), *, [:n], - dB and overlay are pydub's.          *)
(***************************************************************************)
AudioOf(track, n) == [i \in 1..n |-> [track |-> track, ms |-> i, gain |-> 0]]

\* segment * count
RECURSIVE seg_times(_, _)
seg_times(a, count) == IF count = 0 THEN <<>> ELSE a \o seg_times(a, count - 1)

\* segment[:n]
seg_upto(a, n) == SubSeq(a, 1, IF n < Len(a) THEN n ELSE Len(a))

\* segment - dB
seg_minus(a, dB) == [i \in 1..Len(a) |-> [a[i] EXCEPT !.gain = @ - dB]]

\* seg1.overlay(seg2): seg2 laid over seg1 from position 0; the result has
\* the length of seg1
seg_overlay(a, b) ==
    [i \in 1..Len(a) |-> [fg |-> a[i], bg |-> IF i <= Len(b) THEN <<b[i]>> ELSE <<>>]]

NoMerge ==
    [raised |-> "none", repeat_count |-> 0, tiled |-> <<>>, extended_melody |-> <<>>,
     exported |-> FALSE, merged_audio |-> <<>>]

\* lines 46-58, given the extended melody
MergeRest(p, rc, tiled, extended_melody) ==
    LET background_melody == seg_minus(extended_melody, 20)
        merged_audio == seg_overlay(p, background_melody)
    IN  [raised |-> "none", repeat_count |-> rc, tiled |-> tiled,
         extended_melody |-> extended_melody,
         exported |-> TRUE, merged_audio |-> merged_audio]

\* merge_audio_with_melody(podcast_path, melody_path, output_path), the two
\* files already loaded; repeat_count 0 stands for "not repeated"
merge_audio_with_melody(p, m) ==
    LET podcast_duration == Len(p)
        melody_duration == Len(m)
    IN  IF melody_duration < podcast_duration
        THEN IF melody_duration = 0
             THEN [NoMerge EXCEPT !.raised = "ZeroDivisionError"]
             ELSE LET repeat_count == (podcast_duration \div melody_duration) + 1
                      tiled == seg_times(m, repeat_count)
                  IN  MergeRest(p, repeat_count, tiled, seg_upto(tiled, podcast_duration))
        ELSE MergeRest(p, 0, m, seg_upto(m, podcast_duration))

MixIdle ==
    /\ podcast = <<>>
    /\ melody = <<>>
    /\ mpc = "start"
    /\ merge = NoMerge

(***************************************************************************)
(* video_clipper.py.  Durations are whole seconds, frame sizes are pixels. *)
(* An encode call is recorded with its inputs and the ffmpeg command it    *)
(* builds; out_duration is what ffmpeg makes of that command.              *)
(***************************************************************************)
MaxSeconds == 6
MaxDim == 18

SHORTS_MAX_DURATION == 59
SHORTS_WIDTH == 1080
SHORTS_HEIGHT == 1920

\* Python's min and max of two numbers
min(a, b) == IF b < a THEN b ELSE a
max(a, b) == IF b > a THEN b ELSE a

\* how a subprocess.run ends: returncode 0, another returncode, an exception
RunOutcomes == {"ok", "nonzero", "TimeoutExpired", "FileNotFoundError"}

\* the hosts: what each probe does, and the GPU encoders ffmpeg lists
Hosts ==
    [ffmpeg : RunOutcomes, stdout : SUBSET {"h264_nvenc", "h264_vaapi"},
     nvidia_smi : RunOutcomes]

\* GPU_CONFIG before video_clipper is imported
NoConfig ==
    [video_codec |-> "unset", audio_codec |-> "unset", gpu_params |-> {},
     gpu_available |-> FALSE]

\* a detection that takes the encoder list alone as proof of a GPU
detect_gpu_codec_no_smi(p) ==
    LET gpu_config == [video_codec |-> "libx264", audio_codec |-> "aac",
                       gpu_params |-> {}, gpu_available |-> FALSE]
    IN  IF p.ffmpeg # "ok" THEN gpu_config
        ELSE IF "h264_nvenc" \in p.stdout
        THEN [gpu_config EXCEPT !.video_codec = "h264_nvenc",
                                !.gpu_params = {<<"preset", "fast">>, <<"rc", "vbr">>, <<"cq", "23">>,
                                                <<"qmin", "20">>, <<"qmax", "26">>, <<"b:v", "8M">>,
                                                <<"maxrate", "12M">>, <<"bufsize", "16M">>,
                                                <<"gpu", "0">>},
                                !.gpu_available = TRUE]
        ELSE IF "h264_vaapi" \in p.stdout
        THEN [gpu_config EXCEPT !.video_codec = "h264_vaapi",
                                !.gpu_params = {<<"preset", "fast">>, <<"b:v", "8M">>,
                                                <<"maxrate", "12M">>, <<"bufsize", "16M">>},
                                !.gpu_available = TRUE]
        ELSE [gpu_config EXCEPT !.gpu_params = {<<"preset", "fast">>, <<"crf", "23">>}]

\* detect_gpu_codec: a probe that returns non-zero, times out or is missing
\* leaves the CPU default; nvidia-smi counts only when it returns 0
detect_gpu_codec(p) ==
    LET gpu_config == [video_codec |-> "libx264", audio_codec |-> "aac",
                       gpu_params |-> {}, gpu_available |-> FALSE]
        nvidia_available == p.nvidia_smi = "ok"
    IN  IF p.ffmpeg # "ok" THEN gpu_config
        ELSE IF "h264_nvenc" \in p.stdout /\ nvidia_available
        THEN [gpu_config EXCEPT !.video_codec = "h264_nvenc",
                                !.gpu_params = {<<"preset", "fast">>, <<"rc", "vbr">>, <<"cq", "23">>,
                                                <<"qmin", "20">>, <<"qmax", "26">>, <<"b:v", "8M">>,
                                                <<"maxrate", "12M">>, <<"bufsize", "16M">>,
                                                <<"gpu", "0">>},
                                !.gpu_available = TRUE]
        ELSE IF "h264_vaapi" \in p.stdout /\ nvidia_available
        THEN [gpu_config EXCEPT !.video_codec = "h264_vaapi",
                                !.gpu_params = {<<"preset", "fast">>, <<"b:v", "8M">>,
                                                <<"maxrate", "12M">>, <<"bufsize", "16M">>},
                                !.gpu_available = TRUE]
        ELSE [gpu_config EXCEPT !.gpu_params = {<<"preset", "fast">>, <<"crf", "23">>}]

\* the vcodec, acodec and gpu_params every encode call passes to ffmpeg
output_params(cfg) ==
    [vcodec |-> cfg.video_codec, acodec |-> cfg.audio_codec,
     params |-> cfg.gpu_params]

\* a segment as long as asked, whatever the source
segment_duration_unclamped(target_duration_seconds, video_duration) ==
    target_duration_seconds

\* "segment_duration = min(target_duration_seconds, video_duration)"
segment_duration(target_duration_seconds, video_duration) ==
    min(target_duration_seconds, video_duration)

\* "max_start_time = max(0, video_duration - segment_duration)"
max_start_time(video_duration, seg_duration) ==
    max(0, video_duration - seg_duration)

\* an output as long as the audio, whatever the video
final_duration_of_audio(audio_duration, video_duration) == audio_duration

\* "final_duration = min(audio_duration, video_info['duration'])"
final_duration(audio_duration, video_duration) ==
    min(audio_duration, video_duration)

\* what ffmpeg writes for mapped streams of these lengths under "-t t":
\* it stops at t, or when the longest stream ends
ffmpeg_duration(stream_durations, t) ==
    min(t, CHOOSE d \in stream_durations : \A e \in stream_durations : e <= d)

\* the crop taken from the left edge instead of the centre
crop_uncentred(input_width, input_height) ==
    IF input_width * SHORTS_HEIGHT > input_height * SHORTS_WIDTH
    THEN LET crop_width == (input_height * SHORTS_WIDTH) \div SHORTS_HEIGHT
         IN  [crop_width |-> crop_width, crop_height |-> input_height,
              crop_x |-> input_width - crop_width, crop_y |-> 0]
    ELSE LET crop_height == (input_width * SHORTS_HEIGHT) \div SHORTS_WIDTH
         IN  [crop_width |-> input_width, crop_height |-> crop_height,
              crop_x |-> 0, crop_y |-> input_height - crop_height]

\* lines 318-339: the crop of convert_to_shorts_format.  target_aspect is
\* 0.5625, exact in binary, so "current_aspect > target_aspect" is
\* 16 w > 9 h and the two int() calls are the floors below.
crop(input_width, input_height) ==
    IF input_width * SHORTS_HEIGHT > input_height * SHORTS_WIDTH
    THEN LET crop_width == (input_height * SHORTS_WIDTH) \div SHORTS_HEIGHT
         IN  [crop_width |-> crop_width, crop_height |-> input_height,
              crop_x |-> (input_width - crop_width) \div 2, crop_y |-> 0]
    ELSE LET crop_height == (input_width * SHORTS_HEIGHT) \div SHORTS_WIDTH
         IN  [crop_width |-> input_width, crop_height |-> crop_height,
              crop_x |-> 0, crop_y |-> (input_height - crop_height) \div 2]

\* a filter aimed at 1920x1080 instead of 1080x1920
video_filter_landscape(input_width, input_height) ==
    LET c == IF input_width * SHORTS_WIDTH > input_height * SHORTS_HEIGHT
             THEN [crop_width |-> (input_height * SHORTS_HEIGHT) \div SHORTS_WIDTH,
                   crop_height |-> input_height,
                   crop_x |-> (input_width - (input_height * SHORTS_HEIGHT) \div SHORTS_WIDTH) \div 2,
                   crop_y |-> 0]
             ELSE [crop_width |-> input_width,
                   crop_height |-> (input_width * SHORTS_WIDTH) \div SHORTS_HEIGHT,
                   crop_x |-> 0,
                   crop_y |-> (input_height - (input_width * SHORTS_WIDTH) \div SHORTS_HEIGHT) \div 2]
    IN  [crop |-> c, scale_width |-> SHORTS_HEIGHT, scale_height |-> SHORTS_WIDTH]

\* "crop=w:h:x:y,scale=1080:1920"
video_filter(input_width, input_height) ==
    [crop |-> crop(input_width, input_height),
     scale_width |-> SHORTS_WIDTH, scale_height |-> SHORTS_HEIGHT]

\* the frame sizes tried: the small ones, and the usual ones
Dims == (1..MaxDim) \cup {720, 1280, SHORTS_WIDTH, SHORTS_HEIGHT}

\* how an ffmpeg run ends
EncodeOutcomes == {"ok", "ffmpeg.Error"}

\* an encode function that lets ffmpeg.Error through as it is
raised_unchanged(e) == e

\* what the caller sees when e is raised: the encode functions turn
\* ffmpeg.Error into RuntimeError ("except ffmpeg.Error as e: raise
\* RuntimeError(...)"); nothing else on the way up catches anything
raised_as(e) == IF e = "ffmpeg.Error" THEN "RuntimeError" ELSE e

NoCall == [fn |-> "none"]

VideoIdle ==
    /\ probe = [ffmpeg |-> "ok", stdout |-> {}, nvidia_smi |-> "ok"]
    /\ GPU_CONFIG = NoConfig
    /\ vpc = "import"
    /\ call = NoCall

(***************************************************************************)
(* youtube_uploader.py: upload_video and the retry loop of                 *)
(* _resumable_upload.  One step of the model is one pass of the loop: a    *)
(* next_chunk call, the except clauses, and the retry bookkeeping.         *)
(***************************************************************************)
MaxChunks == 2

MAX_RETRIES == 10

\* line 26 with 403 added to the list
RETRIABLE_STATUS_CODES_AND_403 == {500, 502, 503, 504, 403}

RETRIABLE_STATUS_CODES == {500, 502, 503, 504}

\* the statuses an HttpError is tried with: the retriable ones, and two others
StatusCodes == RETRIABLE_STATUS_CODES \cup {400, 403}

NoUpload == [kind |-> "none", value |-> "none"]
\* status: the status of the HttpError the last next_chunk call raised, 0
\* when it raised none
NoAttempts ==
    [calls |-> 0, progress |-> 0, failed |-> 0, sleeps |-> 0, status |-> 0]

UploadIdle ==
    /\ upc = "start"
    /\ response = "None"
    /\ error = "None"
    /\ retry = 0
    /\ upload = NoUpload
    /\ attempts = NoAttempts

\* lines 285-295 and the loop test of line 264, after a pass that left the
\* locals at resp and err: count the retry, give up past MAX_RETRIES, sleep,
\* reset error; then the loop goes on while response is None, and otherwise
\* the function falls off its end, which returns None to upload_video, which
\* returns it.
AfterPass(resp, err, att) ==
    IF err # "None" /\ retry + 1 > MAX_RETRIES
    THEN /\ retry' = retry + 1
         /\ error' = err
         /\ response' = resp
         /\ upc' = "raised"
         /\ upload' = [kind |-> "raised", value |-> "Exception: No longer attempting to retry."]
         /\ attempts' = att
    ELSE /\ retry' = IF err # "None" THEN retry + 1 ELSE retry
         /\ error' = "None"
         /\ response' = resp
         /\ attempts' = IF err # "None" THEN [att EXCEPT !.sleeps = @ + 1] ELSE att
         /\ IF resp = "None"
            THEN /\ upc' = "loop"
                 /\ UNCHANGED upload
            ELSE /\ upc' = "returned"
                 /\ upload' = [kind |-> "returned", value |-> "None"]

(***************************************************************************)
(* main.py, the script: the stages in the order the code calls them, the   *)
(* file each one writes under output/, and the cleanup list.               *)
(***************************************************************************)
\* the values random.choices may give file_name
Names == {"a", "b"}

\* f"output/{file_name}_{kind}"
Path(name, kind) == [name |-> name, kind |-> kind]

OutputKinds ==
    {"podcast.wav", "melody.wav", "merged.wav", "video_segment.mp4",
     "video_with_audio.mp4", "shorts_segment.mp4", "shorts_converted.mp4",
     "shorts.mp4"}

\* what earlier runs may have left under output/
Leftovers == SUBSET {Path("a", k) : k \in OutputKinds}

\* line 122: [audio, melody, merged_audio, video_segment, video_with_audio]
cleanup_files(name) ==
    <<Path(name, "podcast.wav"), Path(name, "melody.wav"), Path(name, "merged.wav"),
      Path(name, "video_segment.mp4"), Path(name, "video_with_audio.mp4")>>

\* lines 96-112: the three files of file_uploads
file_uploads(name) ==
    {Path(name, "video_segment.mp4"), Path(name, "melody.wav"),
     Path(name, "video_with_audio.mp4")}

\* a stage whose exception is swallowed: the script goes on
OnRaiseContinue(next) == next

\* nothing in __main__ catches: an exception ends the script
OnRaise(next) == "aborted"

NoFailure == [stage |-> "none", origin |-> "none", exc |-> "none"]

MainIdle ==
    /\ stage = "idle"
    /\ file_name = "unset"
    /\ files = {}
    /\ ran = <<>>
    /\ sent = {}
    /\ failure = NoFailure

\* the parser's variables, for the specifications that do not parse
ParseIdle ==
    /\ doc = <<>>
    /\ text = <<>>
    /\ segments = <<>>
    /\ ppc = "start"
    /\ emotion_files = {}

(***************************************************************************)
(* waveform.py, the standalone utility: its command line, the check of     *)
(* the input path, the generation, and the status the process ends with.   *)
(***************************************************************************)
\* the command lines tried: the positional audio_path left out, naming a
\* file that exists, naming one that does not; -o given or not; -w,
\* --height and -f left out, an integer, or not an integer
CommandLines ==
    [audio_path : {"none", "present.mp3", "absent.mp3"},
     output : {"none", "out.mp4"},
     width : {"default", "640", "x"},
     height : {"default", "x"},
     fps : {"default", "x"}]

\* os.path.exists(args.audio_path)
AudioPathExists(path) == path = "present.mp3"

\* get_default_output_path: f"{audio_stem}_waveform.mp4"
get_default_output_path(audio_path) == "present_waveform.mp4"

WaveIdle ==
    /\ argv = [audio_path |-> "none", output |-> "none", width |-> "default",
               height |-> "default", fps |-> "default"]
    /\ wpc = "start"
    /\ exit_status = -1
    /\ video_out = "none"

(***************************************************************************)
(* slack.py, SlackMessenger.send_audio_file.  A path is a string, "none"   *)
(* for the argument left at None; file_uploads is the list of the paths    *)
(* of its dictionaries, with a flag for the argument left at None.         *)
(***************************************************************************)
MaxUploads == 2

SlackPaths == {"here1.mp3", "here2.mp4", "gone.mp3"}

\* os.path.exists(path)
SlackPathExists(path) == path \in {"here1.mp3", "here2.mp4"}

SeqsUpTo(S, n) == UNION {[1..k -> S] : k \in 0..n}

SlackArgs ==
    [file_path : SlackPaths \cup {"none"},
     file_uploads : {[given |-> FALSE, list |-> <<>>]} \cup
                    {[given |-> TRUE, list |-> l] :
                        l \in SeqsUpTo(SlackPaths, MaxUploads)},
     initial_comment : {"none", "comment"}]

\* lines 65-67, checking the first dictionary only
first_exists(list) == SlackPathExists(list[1])

\* lines 65-67: the for loop raises at the first file that does not exist
all_exist(list) == \A i \in 1..Len(list) : SlackPathExists(list[i])

\* "if file_uploads:", "elif file_path:": which branch a call takes
branch(args) ==
    IF args.file_uploads.given /\ args.file_uploads.list # <<>>
    THEN "file_uploads"
    ELSE IF args.file_path # "none" THEN "file_path" ELSE "neither"

SlackIdle ==
    /\ slack_args = [file_path |-> "none",
                     file_uploads |-> [given |-> FALSE, list |-> <<>>],
                     initial_comment |-> "none"]
    /\ spc = "start"
    /\ slack_calls = <<>>
    /\ slack_raised = "none"

(***************************************************************************)
(* audio_clipper.py, get_random_audio_segment.  An audio is its length in  *)
(* milliseconds, which is all the function computes with.                  *)
(***************************************************************************)
MaxClipSeconds == 2
MaxBackgroundMs == 3500

\* the lengths a background file is tried with: none at all, one
\* millisecond, around each whole second, and a long one
BackgroundLengths ==
    {0, 1, MaxBackgroundMs} \cup
    {sec * 1000 + d : sec \in 1..MaxClipSeconds, d \in {-1, 0, 1}}

\* line 40
repeat_count(duration_ms, audio_length_ms) ==
    (duration_ms \div audio_length_ms) + 1

\* len(audio[a:b]) for 0 <= a <= b, as pydub cuts it: both ends are clamped
\* to the length
slice_ms(audio_length_ms, a, b) ==
    min(b, audio_length_ms) - min(a, audio_length_ms)

NoClip ==
    [audio_length_ms |-> 0, repeat_count |-> 0, start_ms |-> 0, end_ms |-> 0,
     segment_ms |-> 0, raised |-> "none"]

ClipIdle ==
    /\ background_dir = {}
    /\ duration_sec = 0
    /\ cpc = "start"
    /\ clip = NoClip

(***************************************************************************)
(* video_clipper.py, the shorts derivative: extract_shorts_segment and     *)
(* create_shorts_version.  Durations are whole seconds, 0 for a file not   *)
(* written yet.                                                            *)
(***************************************************************************)
\* the durations an audio and a source video are tried with: short, around
\* the shorts limit, and well beyond it
ShortsDurations ==
    {1, SHORTS_MAX_DURATION - 1, SHORTS_MAX_DURATION, SHORTS_MAX_DURATION + 1,
     SHORTS_MAX_DURATION + MaxSeconds}

\* extract_shorts_segment passing the request on as it came
shorts_segment_duration_uncapped(target_duration_seconds) ==
    target_duration_seconds

\* line 388: "segment_duration = min(target_duration_seconds,
\* SHORTS_MAX_DURATION)"
shorts_segment_duration(target_duration_seconds) ==
    min(target_duration_seconds, SHORTS_MAX_DURATION)

\* line 421: "shorts_duration = min(audio_duration, SHORTS_MAX_DURATION)"
shorts_duration(audio_duration) == min(audio_duration, SHORTS_MAX_DURATION)

NoShorts ==
    [fn |-> "none", audio_duration |-> 0, source_duration |-> 0,
     requested |-> 0, capped |-> 0, ss |-> 0, segment |-> 0, converted |-> 0,
     final |-> 0, raised |-> "none"]

ShortsIdle ==
    /\ hpc = "start"
    /\ shorts = NoShorts

(***************************************************************************)
(* rss_reader.py, get_latest_article.  An entry is its title and which of  *)
(* the attributes the function reads it carries; feedparser raises         *)
(* AttributeError on reading one an entry does not carry.                  *)
(***************************************************************************)
MaxEntries == 2

Titles == {"t1", "t2"}

\* has: "all" for an entry with title, link, published and summary,
\* "no summary" for one lacking link, published or summary, "no title"
Entries == [title : Titles, has : {"all", "no summary", "no title"}]

Feeds == UNION {[1..k -> Entries] : k \in 0..MaxEntries}

\* lines 18-24: the title loaded from the file, None without a file or
\* when the file is not JSON
previous_title(file) ==
    IF file \in {"<absent>", "<corrupt>"} THEN "None" ELSE file

\* lines 27-44 from entry i on: the value returned and the title written;
\* an exception at an entry ends the call with None (line 46), after the
\* write of line 30 when it comes from lines 34-39
RECURSIVE first_new_entry(_, _, _)
first_new_entry(feed, i, previous) ==
    IF i > Len(feed) THEN [returned |-> "None", written |-> "None"]
    ELSE IF feed[i].has = "no title"
    THEN [returned |-> "None", written |-> "None"]
    ELSE IF feed[i].title # previous
    THEN [returned |-> IF feed[i].has = "all" THEN feed[i].title ELSE "None",
          written |-> feed[i].title]
    ELSE first_new_entry(feed, i + 1, previous)

NoRss ==
    [fetch |-> "none", feed |-> <<>>, file_before |-> "<absent>",
     returned |-> "None"]

RssIdle ==
    /\ title_file = "<absent>"
    /\ rss = NoRss
    /\ last_returned = "none"

(***************************************************************************)
(* f5tts.py, the handles under any sequence of calls of                    *)
(* load_model_resources, unload_model_resources and generate_audio.        *)
(***************************************************************************)
MaxHandleCalls == 3

HandlesIdle ==
    /\ handle_calls = <<>>

\* the parts added last, at rest
NewIdle ==
    /\ WaveIdle
    /\ SlackIdle
    /\ ClipIdle
    /\ ShortsIdle
    /\ RssIdle
    /\ HandlesIdle

(***************************************************************************)
(* Transcripts.  A transcript is written as at most MaxPieces pieces: a    *)
(* tagged pair <label>body</label>, or raw text (which may be stray        *)
(* markup).                                                                *)
(***************************************************************************)
Tag(label, body) == [kind |-> "tag", label |-> label, body |-> body]
Raw(body) == [kind |-> "raw", label |-> <<>>, body |-> body]

Render(p) ==
    IF p.kind = "tag"
    THEN <<"<">> \o p.label \o <<">">> \o p.body \o <<"<", "/">> \o p.label \o <<">">>
    ELSE p.body

RECURSIVE RenderDoc(_)
RenderDoc(d) == IF d = <<>> THEN <<>> ELSE Render(Head(d)) \o RenderDoc(Tail(d))

Docs(pieces, n) == UNION {[1..k -> pieces] : k \in 0..n}

ParsePieces ==
    {Tag(<<"scared">>, b) : b \in {<<>>, <<"hi">>, <<" ", "hi", " ", "hi">>}}
    \cup {Tag(SILENCE, b) : b \in {<<" ">>, <<"2">>}}
    \cup {Raw(b) : b \in {<<"hi">>, <<" ">>, <<"2", " ">>}}
    \cup {Raw(b) : b \in {<<"<", "scared", ">">>, <<"<", "/", "scared", ">">>,
                          <<"<", "/", "silence", ">">>, <<"<">>}}

(***************************************************************************)
(* float(content) and int(duration * sample_rate).  A float is kept as     *)
(* the exact fraction num/den.  Over the atoms of the model the strings    *)
(* float() accepts are [-] digits [. digits] and [-] . digits.  The        *)
(* durations of the transcripts below (2, .25, -2) are exact in binary     *)
(* floating point, and so are their products with the sample rates.        *)
(***************************************************************************)
RECURSIVE DigitsValue(_)
DigitsValue(s) ==
    IF s = <<>> THEN 0
    ELSE 10 * DigitsValue(SubSeq(s, 1, Len(s) - 1))
         + (IF s[Len(s)] = "2" THEN 2 ELSE 5)

RECURSIVE Pow10(_)
Pow10(n) == IF n = 0 THEN 1 ELSE 10 * Pow10(n - 1)

\* float(s): [ok |-> FALSE] stands for ValueError
float(s0) ==
    LET s == strip(s0)
        neg == s # <<>> /\ s[1] = "-"
        body == IF neg THEN Tail(s) ELSE s
        dots == {k \in 1..Len(body) : body[k] = "."}
        digits == {k \in 1..Len(body) : body[k] \in DigitAtoms}
    IN  IF \/ digits = {}
           \/ Cardinality(dots) > 1
           \/ dots \cup digits # 1..Len(body)
        THEN [ok |-> FALSE]
        ELSE LET dot == IF dots = {} THEN Len(body) + 1 ELSE CHOOSE k \in dots : TRUE
                 whole == SubSeq(body, 1, dot - 1)
                 frac == SubSeq(body, dot + 1, Len(body))
                 num == DigitsValue(whole \o frac)
             IN  [ok |-> TRUE, num |-> IF neg THEN -num ELSE num, den |-> Pow10(Len(frac))]

\* int(x) of the fraction n/d: truncation towards zero
int(n, d) == IF n >= 0 THEN n \div d ELSE -((-n) \div d)

(***************************************************************************)
(* Audio buffers.  An array of samples is kept run-length encoded: a       *)
(* sequence of runs [src, n], n >= 1 samples from source src, where src 0  *)
(* is the zero sample and src i >= 1 is the wave synthesized for           *)
(* segment i.                                                              *)
(***************************************************************************)
DefaultSampleRate == 24000

\* np.zeros(samples, dtype=np.float32)
np_zeros(samples) == IF samples = 0 THEN <<>> ELSE <<[src |-> 0, n |-> samples]>>

\* a concatenation that puts the buffers in the wrong order
RECURSIVE np_concatenate_reversed(_)
np_concatenate_reversed(arrays) ==
    IF arrays = <<>> THEN <<>> ELSE np_concatenate_reversed(Tail(arrays)) \o Head(arrays)

\* np.concatenate(arrays)
RECURSIVE np_concatenate(_)
np_concatenate(arrays) ==
    IF arrays = <<>> THEN <<>> ELSE Head(arrays) \o np_concatenate(Tail(arrays))

RECURSIVE NumSamples(_)
NumSamples(buf) == IF buf = <<>> THEN 0 ELSE Head(buf).n + NumSamples(Tail(buf))

\* a call that leaves sample_rate at the default of the signature
generate_silence_default_rate(num, den, rate) ==
    LET samples == int(num * DefaultSampleRate, den) IN
    IF samples < 0 THEN [raises |-> TRUE, buf |-> <<>>]
    ELSE [raises |-> FALSE, buf |-> np_zeros(samples)]

\* generate_silence(duration_seconds, sample_rate), the duration being
\* num/den: np.zeros raises ValueError for a negative count
generate_silence(num, den, rate) ==
    LET samples == int(num * rate, den) IN
    IF samples < 0 THEN [raises |-> TRUE, buf |-> <<>>]
    ELSE [raises |-> FALSE, buf |-> np_zeros(samples)]

\* a silence branch that appends an empty buffer for a duration it rejects
SilenceStepEmptyKept(content, rate) ==
    LET duration == float(content) IN
    IF ~duration.ok THEN [kind |-> "silence", buf |-> <<>>]
    ELSE LET silence_audio == generate_silence(duration.num, duration.den, rate) IN
         IF silence_audio.raises THEN [kind |-> "silence", buf |-> <<>>]
         ELSE [kind |-> "silence", buf |-> silence_audio.buf]

\* a silence branch without its except clause: the ValueError leaves the loop
SilenceStepNoExcept(content, rate) ==
    LET duration == float(content) IN
    IF ~duration.ok THEN [kind |-> "raise", buf |-> <<>>]
    ELSE LET silence_audio == generate_silence(duration.num, duration.den, rate) IN
         IF silence_audio.raises THEN [kind |-> "raise", buf |-> <<>>]
         ELSE [kind |-> "silence", buf |-> silence_audio.buf]

\* the silence branch of the loop body: a ValueError of float(content) or of
\* generate_silence is caught and the segment skipped
SilenceStep(content, rate) ==
    LET duration == float(content) IN
    IF ~duration.ok THEN [kind |-> "skipped", buf |-> <<>>]
    ELSE LET silence_audio == generate_silence(duration.num, duration.den, rate) IN
         IF silence_audio.raises THEN [kind |-> "skipped", buf |-> <<>>]
         ELSE [kind |-> "silence", buf |-> silence_audio.buf]

(***************************************************************************)
(* Reference audio.                                                        *)
(***************************************************************************)
EmotionFile(emotion) == [dir |-> "data/emotions", stem |-> emotion, ext |-> "mp3"]

\* os.path.exists
PathExists(path) == path.dir = "data/emotions" /\ path.stem \in emotion_files

\* a resolver without the fallback
get_emotion_audio_path_no_fallback(emotion) == EmotionFile(emotion)

get_emotion_audio_path(emotion) ==
    IF ~PathExists(EmotionFile(emotion)) THEN EmotionFile(NEUTRAL)
    ELSE EmotionFile(emotion)

\* what infer_process may return for segment i: the wave and its sample rate
InferOutputs(i) ==
    {[wave |-> <<[src |-> i, n |-> 3]>>, rate |-> DefaultSampleRate],
     [wave |-> <<[src |-> i, n |-> 5]>>, rate |-> 22050]}

JobPieces ==
    {Tag(SILENCE, b) : b \in {<<"2">>, <<".", "2", "5">>, <<"-", "2">>, <<"hi">>}}
    \cup {Tag(<<"scared">>, <<"hi">>), Raw(<<"hi">>), Raw(<<" ">>)}

EmotionAssets == {{NEUTRAL, <<"scared">>}, {NEUTRAL}, {}}

NoPath == [dir |-> "", stem |-> <<>>, ext |-> ""]

\* output_path before sf.write: no file
NoFile == [written |-> FALSE, audio |-> <<>>, rate |-> 0]

(***************************************************************************)
(* generate_emotion_audio, one action per stretch of the function between  *)
(* two calls that may fail.                                                *)
(***************************************************************************)
JobIdle ==
    /\ _model = "None"
    /\ _vocoder = "None"
    /\ pc = "start"
    /\ idx = 1
    /\ all_audio_segments = <<>>
    /\ sample_rate = DefaultSampleRate
    /\ exc = "none"
    /\ output_file = NoFile
    /\ loaded = FALSE
    /\ produced = <<>>

Init ==
    /\ doc \in Docs(JobPieces, MaxJobPieces)
    /\ text = RenderDoc(doc)
    /\ segments = <<>>
    /\ ppc = "start"
    /\ emotion_files \in EmotionAssets
    /\ JobIdle
    /\ MixIdle
    /\ VideoIdle
    /\ UploadIdle
    /\ MainIdle
    /\ NewIdle

\* an entry that goes on with no segments
NoSegmentsIgnored(segs) == FALSE

\* "if not segments"
NoSegments(segs) == segs = <<>>

\* without the try ... finally an exception leaves the function at once
AfterTryNoFinally == "done"

\* where control goes when the try block is left: the finally clause
AfterTry == "finally"

\* lines 190-201: parse, the empty check, load_model_resources, the locals
Start ==
    /\ pc = "start"
    /\ segments' = parse_tagged_text(text)
    /\ idx' = 1
    /\ all_audio_segments' = <<>>
    /\ sample_rate' = DefaultSampleRate
    /\ IF NoSegments(segments')
       THEN /\ exc' = "ValueError: No text segments found to generate audio"
            /\ pc' = "done"
            /\ UNCHANGED <<_model, _vocoder, loaded>>
       ELSE \E r \in LoadOutcomes :
              LET l == load_model_resources(_model, _vocoder, r) IN
              /\ _model' = l.model
              /\ _vocoder' = l.vocoder
              /\ loaded' = ~l.raised
              /\ exc' = IF l.raised THEN "LoadError" ELSE "none"
              /\ pc' = IF l.raised THEN "done" ELSE "loop"
    /\ UNCHANGED <<doc, text, ppc, emotion_files, output_file, produced>>
    /\ UNCHANGED mvars
    /\ UNCHANGED <<vvars, uvars, gvars, xvars>>

\* lines 206-215: one iteration of the loop on a silence segment
ProcessSilence ==
    /\ pc = "loop"
    /\ idx <= Len(segments)
    /\ segments[idx][1] = SILENCE
    /\ LET r == SilenceStep(segments[idx][2], sample_rate) IN
       /\ produced' = Append(produced, [kind |-> r.kind, buf |-> r.buf,
                                        rate |-> sample_rate, ref |-> NoPath])
       /\ IF r.kind = "raise"
          THEN /\ exc' = "ValueError"
               /\ pc' = AfterTry
               /\ UNCHANGED <<idx, all_audio_segments>>
          ELSE /\ all_audio_segments' = IF r.kind = "silence"
                                        THEN Append(all_audio_segments, r.buf)
                                        ELSE all_audio_segments
               /\ idx' = idx + 1
               /\ UNCHANGED <<exc, pc>>
    /\ UNCHANGED <<doc, text, segments, ppc, emotion_files, _model, _vocoder,
                   sample_rate, output_file, loaded>>
    /\ UNCHANGED mvars
    /\ UNCHANGED <<vvars, uvars, gvars, xvars>>

\* lines 216-238: one iteration of the loop on a speech segment
ProcessSpeech ==
    /\ pc = "loop"
    /\ idx <= Len(segments)
    /\ segments[idx][1] # SILENCE
    /\ LET ref_audio_path == get_emotion_audio_path(segments[idx][1]) IN
       \/ \* preprocess_ref_audio_text cannot read the reference audio (always
          \* so when the file is missing)
          /\ exc' = "RefAudioError"
          /\ pc' = AfterTry
          /\ produced' = Append(produced, [kind |-> "failed", buf |-> <<>>,
                                           rate |-> sample_rate, ref |-> ref_audio_path])
          /\ UNCHANGED <<idx, all_audio_segments, sample_rate>>
       \/ \* infer_process raises
          /\ PathExists(ref_audio_path)
          /\ exc' = "InferError"
          /\ pc' = AfterTry
          /\ produced' = Append(produced, [kind |-> "failed", buf |-> <<>>,
                                           rate |-> sample_rate, ref |-> ref_audio_path])
          /\ UNCHANGED <<idx, all_audio_segments, sample_rate>>
       \/ \* infer_process returns final_wave, final_sample_rate
          /\ PathExists(ref_audio_path)
          /\ _model = "loaded" /\ _vocoder = "loaded"
          /\ \E out \in InferOutputs(idx) :
               /\ all_audio_segments' = Append(all_audio_segments, out.wave)
               /\ sample_rate' = out.rate
               /\ produced' = Append(produced, [kind |-> "speech", buf |-> out.wave,
                                                rate |-> out.rate, ref |-> ref_audio_path])
          /\ idx' = idx + 1
          /\ UNCHANGED <<exc, pc>>
    /\ UNCHANGED <<doc, text, segments, ppc, emotion_files, _model, _vocoder,
                   output_file, loaded>>
    /\ UNCHANGED mvars
    /\ UNCHANGED <<vvars, uvars, gvars, xvars>>

\* lines 240-250: concatenate and write, or raise when nothing was generated
Assemble ==
    /\ pc = "loop"
    /\ idx > Len(segments)
    /\ \/ /\ all_audio_segments # <<>>
          /\ output_file' = [written |-> TRUE,
                             audio |-> np_concatenate(all_audio_segments),
                             rate |-> sample_rate]
          /\ UNCHANGED exc
       \/ \* os.makedirs or sf.write raises
          /\ all_audio_segments # <<>>
          /\ exc' = "WriteError"
          /\ UNCHANGED output_file
       \/ /\ all_audio_segments = <<>>
          /\ exc' = "ValueError: No audio segments were generated"
          /\ UNCHANGED output_file
    /\ pc' = AfterTry
    /\ UNCHANGED <<doc, text, segments, ppc, emotion_files, _model, _vocoder, idx,
                   all_audio_segments, sample_rate, loaded, produced>>
    /\ UNCHANGED mvars
    /\ UNCHANGED <<vvars, uvars, gvars, xvars>>

\* lines 252-254: the finally clause, then the return or the raise
Finally ==
    /\ pc = "finally"
    /\ LET u == unload_model_resources(_model, _vocoder) IN
       /\ _model' = u.model
       /\ _vocoder' = u.vocoder
    /\ pc' = "done"
    /\ UNCHANGED <<doc, text, segments, ppc, emotion_files, idx, all_audio_segments,
                   sample_rate, exc, output_file, loaded, produced>>
    /\ UNCHANGED mvars
    /\ UNCHANGED <<vvars, uvars, gvars, xvars>>

Next == Start \/ ProcessSilence \/ ProcessSpeech \/ Assemble \/ Finally

Spec == Init /\ [][Next]_vars

(***************************************************************************)
(* The parser alone: every transcript, parsed once.                        *)
(***************************************************************************)
InitParse ==
    /\ doc \in Docs(ParsePieces, MaxPieces)
    /\ text = RenderDoc(doc)
    /\ segments = <<>>
    /\ ppc = "start"
    /\ emotion_files = {}
    /\ JobIdle
    /\ MixIdle
    /\ VideoIdle
    /\ UploadIdle
    /\ MainIdle
    /\ NewIdle

Parse ==
    /\ ppc = "start"
    /\ segments' = parse_tagged_text(text)
    /\ ppc' = "parsed"
    /\ UNCHANGED <<doc, text>>
    /\ UNCHANGED jvars
    /\ UNCHANGED mvars
    /\ UNCHANGED <<vvars, uvars, gvars, xvars>>

NextParse == Parse

SpecParse == InitParse /\ [][NextParse]_vars

(***************************************************************************)
(* The mixer alone: every pair of lengths up to MaxAudioMs, merged once.   *)
(***************************************************************************)
InitMix ==
    /\ doc = <<>>
    /\ text = <<>>
    /\ segments = <<>>
    /\ ppc = "start"
    /\ emotion_files = {}
    /\ JobIdle
    /\ podcast \in {AudioOf("podcast", n) : n \in 0..MaxAudioMs}
    /\ melody \in {AudioOf("melody", n) : n \in 0..MaxAudioMs}
    /\ mpc = "start"
    /\ merge = NoMerge
    /\ VideoIdle
    /\ UploadIdle
    /\ MainIdle
    /\ NewIdle

Merge ==
    /\ mpc = "start"
    /\ merge' = merge_audio_with_melody(podcast, melody)
    /\ mpc' = "done"
    /\ UNCHANGED <<podcast, melody>>
    /\ UNCHANGED pvars
    /\ UNCHANGED jvars
    /\ UNCHANGED <<vvars, uvars, gvars, xvars>>

NextMix == Merge

SpecMix == InitMix /\ [][NextMix]_vars

(***************************************************************************)
(* video_clipper alone: the import on every host, then an encode call on   *)
(* every input up to the bounds.                                           *)
(***************************************************************************)
InitVideo ==
    /\ ParseIdle
    /\ JobIdle
    /\ MixIdle
    /\ probe \in Hosts
    /\ GPU_CONFIG = NoConfig
    /\ vpc = "import"
    /\ call = NoCall
    /\ UploadIdle
    /\ MainIdle
    /\ NewIdle

\* line 105: GPU_CONFIG = detect_gpu_codec()
Import ==
    /\ vpc = "import"
    /\ GPU_CONFIG' = detect_gpu_codec(probe)
    /\ vpc' = "ready"
    /\ UNCHANGED <<probe, call>>
    /\ UNCHANGED <<pvars, jvars, mvars, uvars, gvars, xvars>>

\* extract_random_segment: the clamp, the random start, the ffmpeg run
ExtractRandomSegment ==
    /\ vpc = "ready"
    /\ \E video_duration \in 1..MaxSeconds,
          target_duration_seconds \in 0..(MaxSeconds + 1),
          outcome \in EncodeOutcomes :
          LET seg_duration == segment_duration(target_duration_seconds, video_duration)
          IN  \E start_time \in 0..max_start_time(video_duration, seg_duration) :
                  call' = [fn |-> "extract_random_segment",
                           video_duration |-> video_duration,
                           target_duration_seconds |-> target_duration_seconds,
                           ss |-> start_time,
                           t |-> seg_duration,
                           codec |-> output_params(GPU_CONFIG),
                           raised |-> IF outcome = "ok" THEN "none" ELSE raised_as(outcome)]
    /\ vpc' = "called"
    /\ UNCHANGED <<probe, GPU_CONFIG>>
    /\ UNCHANGED <<pvars, jvars, mvars, uvars, gvars, xvars>>

\* add_audio_to_video: the two probes, final_duration, the ffmpeg run
AddAudioToVideo ==
    /\ vpc = "ready"
    /\ \E video_duration \in 1..MaxSeconds, audio_duration \in 1..MaxSeconds,
          outcome \in EncodeOutcomes :
          LET t == final_duration(audio_duration, video_duration)
              streams == <<[input |-> "video_input", stream |-> "v"],
                           [input |-> "audio_input", stream |-> "a"]>>
              durations == {IF streams[i].input = "video_input"
                            THEN video_duration ELSE audio_duration :
                            i \in 1..Len(streams)}
          IN  call' = [fn |-> "add_audio_to_video",
                       video_duration |-> video_duration,
                       audio_duration |-> audio_duration,
                       streams |-> streams,
                       t |-> t,
                       out_duration |-> ffmpeg_duration(durations, t),
                       codec |-> output_params(GPU_CONFIG),
                       raised |-> IF outcome = "ok" THEN "none" ELSE raised_as(outcome)]
    /\ vpc' = "called"
    /\ UNCHANGED <<probe, GPU_CONFIG>>
    /\ UNCHANGED <<pvars, jvars, mvars, uvars, gvars, xvars>>

\* convert_to_shorts_format: the probe, the filter, the ffmpeg run
ConvertToShortsFormat ==
    /\ vpc = "ready"
    /\ \E input_width \in Dims, input_height \in Dims, outcome \in EncodeOutcomes :
          call' = [fn |-> "convert_to_shorts_format",
                   input_width |-> input_width,
                   input_height |-> input_height,
                   vf |-> video_filter(input_width, input_height),
                   codec |-> output_params(GPU_CONFIG),
                   raised |-> IF outcome = "ok" THEN "none" ELSE raised_as(outcome)]
    /\ vpc' = "called"
    /\ UNCHANGED <<probe, GPU_CONFIG>>
    /\ UNCHANGED <<pvars, jvars, mvars, uvars, gvars, xvars>>

NextVideo == Import \/ ExtractRandomSegment \/ AddAudioToVideo \/ ConvertToShortsFormat

SpecVideo == InitVideo /\ [][NextVideo]_vars

(***************************************************************************)
(* upload_video alone: every sequence of next_chunk outcomes.              *)
(***************************************************************************)
InitUpload ==
    /\ ParseIdle
    /\ JobIdle
    /\ MixIdle
    /\ VideoIdle
    /\ UploadIdle
    /\ MainIdle
    /\ NewIdle

\* upload_video up to the call of _resumable_upload, and lines 260-262
UploadVideo ==
    /\ upc = "start"
    /\ \E exists \in BOOLEAN :
          IF exists
          THEN /\ upc' = "loop"
               /\ response' = "None"
               /\ error' = "None"
               /\ retry' = 0
               /\ UNCHANGED upload
          ELSE /\ upc' = "raised"
               /\ upload' = [kind |-> "raised", value |-> "FileNotFoundError"]
               /\ UNCHANGED <<response, error, retry>>
    /\ UNCHANGED attempts
    /\ UNCHANGED <<pvars, jvars, mvars, vvars, gvars, xvars>>

\* a pass in which next_chunk returns the final response
NextChunkResponse ==
    /\ upc = "loop"
    /\ \E has_id \in BOOLEAN :
          LET att == [attempts EXCEPT !.calls = @ + 1, !.status = 0]
          IN  IF has_id
              THEN /\ response' = "with id"
                   /\ upc' = "returned"
                   /\ upload' = [kind |-> "returned", value |-> "response with id"]
                   /\ attempts' = att
                   /\ UNCHANGED <<error, retry>>
              ELSE AfterPass("without id", "A retriable error occurred",
                             [att EXCEPT !.failed = @ + 1])
    /\ UNCHANGED <<pvars, jvars, mvars, vvars, gvars, xvars>>

\* a pass in which next_chunk reports progress: status, and no response yet
NextChunkProgress ==
    /\ upc = "loop"
    /\ attempts.progress < MaxChunks
    /\ AfterPass("None", "None",
                 [attempts EXCEPT !.calls = @ + 1, !.progress = @ + 1,
                                  !.status = 0])
    /\ UNCHANGED <<pvars, jvars, mvars, vvars, gvars, xvars>>

\* a pass in which next_chunk raises HttpError
NextChunkHttpError ==
    /\ upc = "loop"
    /\ \E status \in StatusCodes :
          LET att == [attempts EXCEPT !.calls = @ + 1, !.failed = @ + 1,
                                      !.status = status]
          IN  IF status \in RETRIABLE_STATUS_CODES
              THEN AfterPass("None", "A retriable HTTP error occurred", att)
              ELSE /\ upc' = "raised"
                   /\ upload' = [kind |-> "raised", value |-> "HttpError"]
                   /\ attempts' = att
                   /\ UNCHANGED <<response, error, retry>>
    /\ UNCHANGED <<pvars, jvars, mvars, vvars, gvars, xvars>>

\* a pass in which next_chunk raises anything else
NextChunkException ==
    /\ upc = "loop"
    /\ AfterPass("None", "A retriable error occurred",
                 [attempts EXCEPT !.calls = @ + 1, !.failed = @ + 1,
                                  !.status = 0])
    /\ UNCHANGED <<pvars, jvars, mvars, vvars, gvars, xvars>>

NextUpload ==
    \/ UploadVideo
    \/ NextChunkResponse
    \/ NextChunkProgress
    \/ NextChunkHttpError
    \/ NextChunkException

SpecUpload == InitUpload /\ [][NextUpload]_vars

(***************************************************************************)
(* The script alone: one run of __main__ over an output/ directory that    *)
(* may hold what earlier runs left.  A step is one call of the script; it  *)
(* returns with its file written, or raises.                               *)
(***************************************************************************)
InitMain ==
    /\ ParseIdle
    /\ JobIdle
    /\ MixIdle
    /\ VideoIdle
    /\ UploadIdle
    /\ stage = "get_latest_article"
    /\ file_name = "unset"
    /\ files \in Leftovers
    /\ ran = <<>>
    /\ sent = {}
    /\ failure = NoFailure
    /\ NewIdle

\* a call of the script: it starts, then ends in one of outcomes: "ok", it
\* returns having written out, or the exception it raises
Call(name, next, out, outcomes) ==
    /\ stage = name
    /\ ran' = Append(ran, name)
    /\ \E outcome \in outcomes :
          IF outcome = "ok"
          THEN /\ stage' = next
               /\ files' = files \cup out
               /\ UNCHANGED failure
          ELSE /\ stage' = OnRaise(next)
               /\ failure' = [stage |-> name, origin |-> outcome, exc |-> raised_as(outcome)]
               /\ UNCHANGED files

\* lines 62-64: get_latest_article returns an article or, on any error,
\* None; subscripting None raises TypeError
StageArticle ==
    /\ Call("get_latest_article", "generate_podcast", {}, {"ok", "TypeError"})
    /\ UNCHANGED <<file_name, sent>>
    /\ UNCHANGED <<pvars, jvars, mvars, vvars, uvars, xvars>>

\* lines 64-69: generate_podcast, then the random file_name
StagePodcast ==
    /\ Call("generate_podcast", "generate_emotion_audio", {}, {"ok", "APIError"})
    /\ IF stage' = "generate_emotion_audio"
       THEN file_name' \in Names
       ELSE UNCHANGED file_name
    /\ UNCHANGED sent
    /\ UNCHANGED <<pvars, jvars, mvars, vvars, uvars, xvars>>

\* lines 71-78: generate_emotion_audio writes the podcast wav
StageSpeech ==
    /\ Call("generate_emotion_audio", "get_random_audio_segment",
            {Path(file_name, "podcast.wav")}, {"ok", "ValueError", "InferError"})
    /\ UNCHANGED <<file_name, sent>>
    /\ UNCHANGED <<pvars, jvars, mvars, vvars, uvars, xvars>>

\* line 81: get_random_audio_segment writes the melody wav
StageMelody ==
    /\ Call("get_random_audio_segment", "merge_audio_with_melody",
            {Path(file_name, "melody.wav")}, {"ok", "ValueError", "ZeroDivisionError"})
    /\ UNCHANGED <<file_name, sent>>
    /\ UNCHANGED <<pvars, jvars, mvars, vvars, uvars, xvars>>

\* lines 84-85: merge_audio_with_melody writes the merged wav
StageMix ==
    /\ Call("merge_audio_with_melody", "extract_random_segment",
            {Path(file_name, "merged.wav")}, {"ok", "ZeroDivisionError"})
    /\ UNCHANGED <<file_name, sent>>
    /\ UNCHANGED <<pvars, jvars, mvars, vvars, uvars, xvars>>

\* process_video_with_audio up to extract_random_segment
StageVideoExtract ==
    /\ Call("extract_random_segment", "add_audio_to_video",
            {Path(file_name, "video_segment.mp4")}, {"ok", "ValueError", "ffmpeg.Error"})
    /\ UNCHANGED <<file_name, sent>>
    /\ UNCHANGED <<pvars, jvars, mvars, vvars, uvars, xvars>>

\* process_video_with_audio: add_audio_to_video
StageVideoAudio ==
    /\ Call("add_audio_to_video", "extract_shorts_segment",
            {Path(file_name, "video_with_audio.mp4")}, {"ok", "ValueError", "ffmpeg.Error"})
    /\ UNCHANGED <<file_name, sent>>
    /\ UNCHANGED <<pvars, jvars, mvars, vvars, uvars, xvars>>

\* create_shorts_version up to extract_shorts_segment
StageShortsExtract ==
    /\ Call("extract_shorts_segment", "convert_to_shorts_format",
            {Path(file_name, "shorts_segment.mp4")}, {"ok", "ValueError", "ffmpeg.Error"})
    /\ UNCHANGED <<file_name, sent>>
    /\ UNCHANGED <<pvars, jvars, mvars, vvars, uvars, xvars>>

\* create_shorts_version: convert_to_shorts_format
StageShortsConvert ==
    /\ Call("convert_to_shorts_format", "add_audio_to_shorts",
            {Path(file_name, "shorts_converted.mp4")}, {"ok", "ValueError", "ffmpeg.Error"})
    /\ UNCHANGED <<file_name, sent>>
    /\ UNCHANGED <<pvars, jvars, mvars, vvars, uvars, xvars>>

\* create_shorts_version: add_audio_to_video on the converted segment
StageShortsAudio ==
    /\ Call("add_audio_to_shorts", "send_audio_file",
            {Path(file_name, "shorts.mp4")}, {"ok", "ValueError", "ffmpeg.Error"})
    /\ UNCHANGED <<file_name, sent>>
    /\ UNCHANGED <<pvars, jvars, mvars, vvars, uvars, xvars>>

\* lines 90-119: SlackMessenger() and send_audio_file, which raises
\* FileNotFoundError before any upload if a file is missing
StageSlack ==
    /\ Call("send_audio_file", "cleanup", {},
            IF file_uploads(file_name) \subseteq files
            THEN {"ok", "ValueError", "SlackApiError"}
            ELSE {"ValueError", "FileNotFoundError"})
    /\ sent' = IF stage' = "cleanup" THEN file_uploads(file_name) ELSE sent
    /\ UNCHANGED file_name
    /\ UNCHANGED <<pvars, jvars, mvars, vvars, uvars, xvars>>

\* lines 121-126: the files of cleanup_files that exist are removed, in
\* order, unless an os.remove raises
StageCleanup ==
    /\ stage = "cleanup"
    /\ ran' = Append(ran, "cleanup")
    /\ LET list == cleanup_files(file_name)
       IN  \E n \in 0..Len(list) :
               /\ files' = files \ {list[i] : i \in 1..n}
               /\ IF n = Len(list)
                  THEN /\ stage' = "done"
                       /\ UNCHANGED failure
                  ELSE /\ list[n + 1] \in files
                       /\ stage' = OnRaise("done")
                       /\ failure' = [stage |-> "cleanup", origin |-> "OSError",
                                       exc |-> raised_as("OSError")]
    /\ UNCHANGED <<file_name, sent>>
    /\ UNCHANGED <<pvars, jvars, mvars, vvars, uvars, xvars>>

NextMain ==
    \/ StageArticle
    \/ StagePodcast
    \/ StageSpeech
    \/ StageMelody
    \/ StageMix
    \/ StageVideoExtract
    \/ StageVideoAudio
    \/ StageShortsExtract
    \/ StageShortsConvert
    \/ StageShortsAudio
    \/ StageSlack
    \/ StageCleanup

SpecMain == InitMain /\ [][NextMain]_vars

(***************************************************************************)
(* The waveform utility alone: one run of the script on every command      *)
(* line.                                                                   *)
(***************************************************************************)
InitWaveform ==
    /\ ParseIdle
    /\ JobIdle
    /\ MixIdle
    /\ VideoIdle
    /\ UploadIdle
    /\ MainIdle
    /\ SlackIdle
    /\ ClipIdle
    /\ ShortsIdle
    /\ RssIdle
    /\ HandlesIdle
    /\ argv \in CommandLines
    /\ wpc = "start"
    /\ exit_status = -1
    /\ video_out = "none"

\* lines 209-216: argparse exits with status 2 on a missing audio_path or a
\* value that is not an integer
WaveformParseArgs ==
    /\ wpc = "start"
    /\ IF \/ argv.audio_path = "none"
          \/ "x" \in {argv.width, argv.height, argv.fps}
       THEN /\ wpc' = "exited"
            /\ exit_status' = 2
       ELSE /\ wpc' = "parsed"
            /\ UNCHANGED exit_status
    /\ UNCHANGED <<argv, video_out>>
    /\ UNCHANGED <<pvars, jvars, mvars, vvars, uvars, gvars>>
    /\ UNCHANGED beside_wvars

\* lines 218-221: a missing file is reported and main returns; the script
\* ends there, with status 0
WaveformCheckInput ==
    /\ wpc = "parsed"
    /\ IF ~AudioPathExists(argv.audio_path)
       THEN /\ wpc' = "exited"
            /\ exit_status' = 0
       ELSE /\ wpc' = "checked"
            /\ UNCHANGED exit_status
    /\ UNCHANGED <<argv, video_out>>
    /\ UNCHANGED <<pvars, jvars, mvars, vvars, uvars, gvars>>
    /\ UNCHANGED beside_wvars

\* lines 223-241: generate_waveform_video writes the video, or raises and
\* the exception is printed; either way main returns and the status is 0
WaveformGenerate ==
    /\ wpc = "checked"
    /\ \E outcome \in {"ok", "Exception"} :
          video_out' = IF outcome # "ok" THEN "none"
                       ELSE IF argv.output = "none"
                       THEN get_default_output_path(argv.audio_path)
                       ELSE argv.output
    /\ wpc' = "exited"
    /\ exit_status' = 0
    /\ UNCHANGED argv
    /\ UNCHANGED <<pvars, jvars, mvars, vvars, uvars, gvars>>
    /\ UNCHANGED beside_wvars

NextWaveform == WaveformParseArgs \/ WaveformCheckInput \/ WaveformGenerate

SpecWaveform == InitWaveform /\ [][NextWaveform]_vars

(***************************************************************************)
(* send_audio_file alone: one call on every combination of arguments.      *)
(***************************************************************************)
InitSlack ==
    /\ ParseIdle
    /\ JobIdle
    /\ MixIdle
    /\ VideoIdle
    /\ UploadIdle
    /\ MainIdle
    /\ WaveIdle
    /\ ClipIdle
    /\ ShortsIdle
    /\ RssIdle
    /\ HandlesIdle
    /\ slack_args \in SlackArgs
    /\ spc = "start"
    /\ slack_calls = <<>>
    /\ slack_raised = "none"

\* lines 62-67, 82-85 and 96-97: the branch is chosen and its files are
\* checked
SendAudioFileCheck ==
    /\ spc = "start"
    /\ LET b == branch(slack_args)
           found == IF b = "file_uploads"
                    THEN all_exist(slack_args.file_uploads.list)
                    ELSE SlackPathExists(slack_args.file_path)
       IN  IF b = "neither"
           THEN /\ spc' = "raised"
                /\ slack_raised' = "ValueError"
           ELSE IF ~found
           THEN /\ spc' = "raised"
                /\ slack_raised' = "FileNotFoundError"
           ELSE /\ spc' = "checked"
                /\ UNCHANGED slack_raised
    /\ UNCHANGED <<slack_args, slack_calls>>
    /\ UNCHANGED <<pvars, jvars, mvars, vvars, uvars, gvars>>
    /\ UNCHANGED beside_svars

\* lines 69-80 and 87-95: the one files_upload_v2 call; a SlackApiError is
\* printed and raised again
SendAudioFileUpload ==
    /\ spc = "checked"
    /\ slack_calls' = Append(slack_calls,
          IF branch(slack_args) = "file_uploads"
          THEN [file_uploads |-> slack_args.file_uploads.list,
                file |-> "none",
                initial_comment |-> slack_args.initial_comment]
          ELSE [file_uploads |-> <<>>,
                file |-> slack_args.file_path,
                initial_comment |-> slack_args.initial_comment])
    /\ \E outcome \in {"ok", "SlackApiError"} :
          IF outcome = "ok"
          THEN /\ spc' = "returned"
               /\ UNCHANGED slack_raised
          ELSE /\ spc' = "raised"
               /\ slack_raised' = outcome
    /\ UNCHANGED slack_args
    /\ UNCHANGED <<pvars, jvars, mvars, vvars, uvars, gvars>>
    /\ UNCHANGED beside_svars

NextSlack == SendAudioFileCheck \/ SendAudioFileUpload

SpecSlack == InitSlack /\ [][NextSlack]_vars

(***************************************************************************)
(* get_random_audio_segment alone: one call for every requested duration   *)
(* over a directory holding no file or one file of every length tried.     *)
(***************************************************************************)
InitClip ==
    /\ ParseIdle
    /\ JobIdle
    /\ MixIdle
    /\ VideoIdle
    /\ UploadIdle
    /\ MainIdle
    /\ WaveIdle
    /\ SlackIdle
    /\ ShortsIdle
    /\ RssIdle
    /\ HandlesIdle
    /\ background_dir \in {{}} \cup {{l} : l \in BackgroundLengths}
    /\ duration_sec \in 0..MaxClipSeconds
    /\ cpc = "start"
    /\ clip = NoClip

\* lines 17-36: the listing, the random choice of a file, the load
GetRandomAudioSegmentLoad ==
    /\ cpc = "start"
    /\ IF background_dir = {}
       THEN /\ cpc' = "raised"
            /\ clip' = [clip EXCEPT !.raised = "ValueError"]
       ELSE \E random_file \in background_dir :
               /\ cpc' = "loaded"
               /\ clip' = [clip EXCEPT !.audio_length_ms = random_file]
    /\ UNCHANGED <<background_dir, duration_sec>>
    /\ UNCHANGED <<pvars, jvars, mvars, vvars, uvars, gvars>>
    /\ UNCHANGED beside_cvars

\* lines 34-59: the repetition of a short file, the random start, the cut,
\* the export
GetRandomAudioSegmentCut ==
    /\ cpc = "loaded"
    /\ LET duration_ms == duration_sec * 1000
           short == clip.audio_length_ms < duration_ms
       IN  IF short /\ clip.audio_length_ms = 0
           THEN /\ cpc' = "raised"
                /\ clip' = [clip EXCEPT !.raised = "ZeroDivisionError"]
           ELSE LET count == IF short
                             THEN repeat_count(duration_ms, clip.audio_length_ms)
                             ELSE 0
                    audio_length_ms == IF short
                                       THEN clip.audio_length_ms * count
                                       ELSE clip.audio_length_ms
                IN  /\ cpc' = "returned"
                    /\ IF audio_length_ms > duration_ms
                       THEN \E start_ms \in 0..(audio_length_ms - duration_ms) :
                              clip' = [audio_length_ms |-> audio_length_ms,
                                       repeat_count |-> count,
                                       start_ms |-> start_ms,
                                       end_ms |-> start_ms + duration_ms,
                                       segment_ms |->
                                           slice_ms(audio_length_ms, start_ms,
                                                    start_ms + duration_ms),
                                       raised |-> "none"]
                       ELSE clip' = [audio_length_ms |-> audio_length_ms,
                                     repeat_count |-> count,
                                     start_ms |-> 0,
                                     end_ms |-> duration_ms,
                                     segment_ms |->
                                         slice_ms(audio_length_ms, 0, duration_ms),
                                     raised |-> "none"]
    /\ UNCHANGED <<background_dir, duration_sec>>
    /\ UNCHANGED <<pvars, jvars, mvars, vvars, uvars, gvars>>
    /\ UNCHANGED beside_cvars

NextClip == GetRandomAudioSegmentLoad \/ GetRandomAudioSegmentCut

SpecClip == InitClip /\ [][NextClip]_vars

(***************************************************************************)
(* The shorts derivative alone, after the import on a host without GPU     *)
(* encoders: one call of extract_shorts_segment, or one of                 *)
(* create_shorts_version step by step, on every audio and source duration  *)
(* tried.                                                                  *)
(***************************************************************************)
InitShorts ==
    /\ ParseIdle
    /\ JobIdle
    /\ MixIdle
    /\ probe = [ffmpeg |-> "ok", stdout |-> {}, nvidia_smi |-> "ok"]
    /\ GPU_CONFIG = detect_gpu_codec(probe)
    /\ vpc = "ready"
    /\ call = NoCall
    /\ UploadIdle
    /\ MainIdle
    /\ WaveIdle
    /\ SlackIdle
    /\ ClipIdle
    /\ RssIdle
    /\ HandlesIdle
    /\ hpc = "start"
    /\ shorts = NoShorts

\* what extract_shorts_segment does with a request: the cap, then
\* extract_random_segment's clamp, random start and ffmpeg run
ExtractInto(rec, target_duration_seconds) ==
    LET capped == shorts_segment_duration(target_duration_seconds)
        seg_duration == segment_duration(capped, rec.source_duration)
    IN  \E start_time \in 0..max_start_time(rec.source_duration, seg_duration),
           outcome \in EncodeOutcomes :
           IF outcome = "ok"
           THEN /\ hpc' = "extracted"
                /\ shorts' =
                     [rec EXCEPT !.requested = target_duration_seconds,
                                 !.capped = capped,
                                 !.ss = start_time,
                                 !.segment =
                                     ffmpeg_duration(
                                         {rec.source_duration - start_time},
                                         seg_duration)]
           ELSE /\ hpc' = "raised"
                /\ shorts' =
                     [rec EXCEPT !.requested = target_duration_seconds,
                                 !.capped = capped,
                                 !.raised = raised_as(outcome)]

\* lines 375-393: a call of extract_shorts_segment by itself
ExtractShortsSegment ==
    /\ hpc = "start"
    /\ \E video_duration \in ShortsDurations,
          target_duration_seconds \in ShortsDurations :
          ExtractInto([NoShorts EXCEPT !.fn = "extract_shorts_segment",
                                       !.source_duration = video_duration],
                      target_duration_seconds)
    /\ UNCHANGED <<pvars, jvars, mvars, vvars, uvars, gvars>>
    /\ UNCHANGED beside_hvars

\* lines 407-424: create_shorts_version probes the audio, limits the
\* duration and picks a source video
CreateShortsProbe ==
    /\ hpc = "start"
    /\ \E outcome \in {"ok", "ValueError"} :
          IF outcome = "ok"
          THEN \E audio_duration \in ShortsDurations,
                  video_duration \in ShortsDurations :
                  /\ hpc' = "probed"
                  /\ shorts' =
                       [NoShorts EXCEPT !.fn = "create_shorts_version",
                                        !.audio_duration = audio_duration,
                                        !.source_duration = video_duration,
                                        !.requested =
                                            shorts_duration(audio_duration)]
          ELSE /\ hpc' = "raised"
               /\ shorts' = [NoShorts EXCEPT !.fn = "create_shorts_version",
                                             !.raised = outcome]
    /\ UNCHANGED <<pvars, jvars, mvars, vvars, uvars, gvars>>
    /\ UNCHANGED beside_hvars

\* line 436: step 1, extract_shorts_segment
CreateShortsExtract ==
    /\ hpc = "probed"
    /\ ExtractInto(shorts, shorts.requested)
    /\ UNCHANGED <<pvars, jvars, mvars, vvars, uvars, gvars>>
    /\ UNCHANGED beside_hvars

\* line 439: step 2, convert_to_shorts_format; the whole segment is encoded
\* again
CreateShortsConvert ==
    /\ hpc = "extracted"
    /\ shorts.fn = "create_shorts_version"
    /\ \E outcome \in EncodeOutcomes :
          IF outcome = "ok"
          THEN /\ hpc' = "converted"
               /\ shorts' = [shorts EXCEPT !.converted = shorts.segment]
          ELSE /\ hpc' = "raised"
               /\ shorts' = [shorts EXCEPT !.raised = raised_as(outcome)]
    /\ UNCHANGED <<pvars, jvars, mvars, vvars, uvars, gvars>>
    /\ UNCHANGED beside_hvars

\* line 442: step 3, add_audio_to_video on the converted file
CreateShortsAddAudio ==
    /\ hpc = "converted"
    /\ \E outcome \in EncodeOutcomes :
          IF outcome = "ok"
          THEN /\ hpc' = "done"
               /\ shorts' =
                    [shorts EXCEPT !.final =
                        ffmpeg_duration(
                            {shorts.converted, shorts.audio_duration},
                            final_duration(shorts.audio_duration,
                                           shorts.converted))]
          ELSE /\ hpc' = "raised"
               /\ shorts' = [shorts EXCEPT !.raised = raised_as(outcome)]
    /\ UNCHANGED <<pvars, jvars, mvars, vvars, uvars, gvars>>
    /\ UNCHANGED beside_hvars

NextShorts ==
    \/ ExtractShortsSegment
    \/ CreateShortsProbe
    \/ CreateShortsExtract
    \/ CreateShortsConvert
    \/ CreateShortsAddAudio

SpecShorts == InitShorts /\ [][NextShorts]_vars

(***************************************************************************)
(* get_latest_article alone: any sequence of calls, each on any fetch      *)
(* outcome and any feed, starting without a title file or with one that    *)
(* is not JSON.                                                            *)
(***************************************************************************)
InitRss ==
    /\ ParseIdle
    /\ JobIdle
    /\ MixIdle
    /\ VideoIdle
    /\ UploadIdle
    /\ MainIdle
    /\ WaveIdle
    /\ SlackIdle
    /\ ClipIdle
    /\ ShortsIdle
    /\ HandlesIdle
    /\ title_file \in {"<absent>", "<corrupt>"}
    /\ rss = NoRss
    /\ last_returned = "none"

\* lines 6-47: one call
GetLatestArticle ==
    /\ \E fetch \in {"ok", "RequestException"}, feed \in Feeds :
          LET found == IF fetch = "ok"
                       THEN first_new_entry(feed, 1, previous_title(title_file))
                       ELSE [returned |-> "None", written |-> "None"]
          IN  /\ title_file' = IF found.written = "None" THEN title_file
                               ELSE found.written
              /\ rss' = [fetch |-> fetch, feed |-> feed,
                         file_before |-> title_file,
                         returned |-> found.returned]
              /\ last_returned' = IF found.returned = "None"
                                  THEN last_returned ELSE found.returned
    /\ UNCHANGED <<pvars, jvars, mvars, vvars, uvars, gvars>>
    /\ UNCHANGED beside_rvars

NextRss == GetLatestArticle

SpecRss == InitRss /\ [][NextRss]_vars

(***************************************************************************)
(* The handles alone: up to MaxHandleCalls calls in any order, each load   *)
(* with every outcome of the two loaders.                                  *)
(***************************************************************************)
InitHandles ==
    /\ ParseIdle
    /\ JobIdle
    /\ MixIdle
    /\ VideoIdle
    /\ UploadIdle
    /\ MainIdle
    /\ WaveIdle
    /\ SlackIdle
    /\ ClipIdle
    /\ ShortsIdle
    /\ RssIdle
    /\ handle_calls = <<>>

\* the entry of handle_calls for a call that found the handles at m, v and
\* left them at l
HandleCall(fn, outcome, m, v, l, inferred) ==
    [fn |-> fn, outcome |-> outcome, model_before |-> m, vocoder_before |-> v,
     model_after |-> l.model, vocoder_after |-> l.vocoder,
     inferred |-> inferred]

JobRest ==
    <<pc, idx, all_audio_segments, sample_rate, exc, output_file, loaded,
      produced>>

\* lines 22-37: a call of load_model_resources()
LoadModelResources ==
    /\ Len(handle_calls) < MaxHandleCalls
    /\ \E r \in LoadOutcomes :
          LET l == load_model_resources(_model, _vocoder, r) IN
          /\ _model' = l.model
          /\ _vocoder' = l.vocoder
          /\ handle_calls' = Append(handle_calls,
                HandleCall("load_model_resources",
                           IF _model # "None" THEN "already loaded" ELSE r,
                           _model, _vocoder, l, "no"))
    /\ UNCHANGED emotion_files
    /\ UNCHANGED JobRest
    /\ UNCHANGED <<pvars, mvars, vvars, uvars, gvars>>
    /\ UNCHANGED beside_kvars

\* lines 39-57: a call of unload_model_resources()
UnloadModelResources ==
    /\ Len(handle_calls) < MaxHandleCalls
    /\ LET u == unload_model_resources(_model, _vocoder) IN
       /\ _model' = u.model
       /\ _vocoder' = u.vocoder
       /\ handle_calls' = Append(handle_calls,
             HandleCall("unload_model_resources",
                        IF _model = "None" THEN "nothing loaded" ELSE "ok",
                        _model, _vocoder, u, "no"))
    /\ UNCHANGED emotion_files
    /\ UNCHANGED JobRest
    /\ UNCHANGED <<pvars, mvars, vvars, uvars, gvars>>
    /\ UNCHANGED beside_kvars

\* lines 76-107: a call of generate_audio on a reference file that exists:
\* the load, outside the try; then infer_process on the two handles and, in
\* the finally clause, the unload
GenerateAudio ==
    /\ Len(handle_calls) < MaxHandleCalls
    /\ \E r \in LoadOutcomes :
          LET l == load_model_resources(_model, _vocoder, r)
              u == IF l.raised THEN [model |-> l.model, vocoder |-> l.vocoder]
                   ELSE unload_model_resources(l.model, l.vocoder)
          IN  /\ _model' = u.model
              /\ _vocoder' = u.vocoder
              /\ handle_calls' = Append(handle_calls,
                    HandleCall("generate_audio",
                               IF _model # "None" THEN "already loaded" ELSE r,
                               _model, _vocoder, u,
                               IF l.raised THEN "no"
                               ELSE IF l.vocoder = "None"
                               THEN "model, no vocoder"
                               ELSE "model and vocoder"))
    /\ UNCHANGED emotion_files
    /\ UNCHANGED JobRest
    /\ UNCHANGED <<pvars, mvars, vvars, uvars, gvars>>
    /\ UNCHANGED beside_kvars

NextHandles == LoadModelResources \/ UnloadModelResources \/ GenerateAudio

SpecHandles == InitHandles /\ [][NextHandles]_vars

(***************************************************************************)
(* What the parser is expected to return, stated over positions.           *)
(***************************************************************************)
\* the positions of t inside a matched pair
Covered(t, ms) == {k \in 0..(Len(t) - 1) : \E i \in 1..Len(ms) : ms[i].start <= k /\ k < ms[i].end}

\* the end of the untagged run that starts at a
UntaggedEnd(t, ms, a) ==
    CHOOSE b \in (a + 1)..Len(t) :
        /\ b = Len(t) \/ b \in Covered(t, ms)
        /\ \A k \in a..(b - 1) : k \notin Covered(t, ms)

\* the starts of the maximal untagged runs
UntaggedStarts(t, ms) ==
    {a \in 0..(Len(t) - 1) : a \notin Covered(t, ms) /\ (a = 0 \/ (a - 1) \in Covered(t, ms))}

\* every matched pair and every non-blank untagged run, with its start position
Items(t) ==
    LET ms == finditer(t, 0) IN
    {[pos |-> ms[i].start, seg |-> <<ms[i].group1, strip(ms[i].group2)>>] : i \in 1..Len(ms)}
    \cup {[pos |-> a, seg |-> <<NEUTRAL, strip(Slice(t, a, UntaggedEnd(t, ms, a)))>>] :
            a \in {x \in UntaggedStarts(t, ms) : strip(Slice(t, x, UntaggedEnd(t, ms, x))) # <<>>}}

RECURSIVE ByPosition(_)
ByPosition(items) ==
    IF items = {} THEN <<>>
    ELSE LET first == CHOOSE x \in items : \A y \in items : x.pos <= y.pos
         IN  <<first.seg>> \o ByPosition(items \ {first})

\* C1: the segments are the matched pairs and the non-blank untagged runs,
\* each exactly once, in the order of their start positions in the text.
C1_DocumentOrder ==
    ppc = "parsed" => segments = ByPosition(Items(text))

\* two matched pairs with spoken untagged text between them
C1_Witness ==
    /\ ppc = "parsed"
    /\ Len(finditer(text, 0)) = 2
    /\ Len(segments) = 3
    /\ segments[2] = <<NEUTRAL, <<"hi">>>>

\* no markup character inside the bodies: tags are closed and do not nest
WellFormed(d) ==
    \A i \in 1..Len(d) : \A k \in 1..Len(d[i].body) : d[i].body[k] \notin {"<", ">"}

\* the text of a well-formed transcript with its markup removed, each tag body
\* and each untagged run trimmed
RECURSIVE Spoken(_, _)
Spoken(d, run) ==
    IF d = <<>> THEN strip(run)
    ELSE IF Head(d).kind = "raw" THEN Spoken(Tail(d), run \o Head(d).body)
    ELSE strip(run) \o strip(Head(d).body) \o Spoken(Tail(d), <<>>)

RECURSIVE Contents(_)
Contents(segs) == IF segs = <<>> THEN <<>> ELSE Head(segs)[2] \o Contents(Tail(segs))

\* C3: for a well-formed transcript the segment contents, concatenated in
\* order, are the text without its markup, up to the trimming at the
\* segment boundaries.
C3_RoundTrip ==
    (ppc = "parsed" /\ WellFormed(doc)) => Contents(segments) = Spoken(doc, <<>>)

\* two tags of the same label around spoken untagged text
C3_Witness ==
    /\ ppc = "parsed"
    /\ WellFormed(doc)
    /\ Len(doc) = 3
    /\ doc[1].kind = "tag" /\ doc[3] = doc[1] /\ doc[1].body # <<>>
    /\ doc[2] = Raw(<<"hi">>)
(***************************************************************************)
(* Claims about generate_emotion_audio.                                    *)
(***************************************************************************)
IsInvalidSilence(seg) == seg[1] = SILENCE /\ ~float(seg[2]).ok

\* the sample rate reported by the last speech segment processed before
\* segment i, or the default when there is none
LastSpeechRate(i) ==
    LET speech == {j \in 1..(i - 1) : j <= Len(produced) /\ produced[j].kind = "speech"}
    IN  IF speech = {} THEN DefaultSampleRate
        ELSE produced[CHOOSE j \in speech : \A k \in speech : k <= j].rate

\* the buffers of the segments that contributed audio, in segment order
RECURSIVE Contributed(_)
Contributed(hist) ==
    IF hist = <<>> THEN <<>>
    ELSE IF Head(hist).kind \in {"silence", "speech"}
         THEN <<Head(hist).buf>> \o Contributed(Tail(hist))
         ELSE Contributed(Tail(hist))

\* the buffers joined end to end, first buffer first
RECURSIVE Joined(_)
Joined(bufs) ==
    IF bufs = <<>> THEN <<>>
    ELSE Joined(SubSeq(bufs, 1, Len(bufs) - 1)) \o bufs[Len(bufs)]

RECURSIVE TotalSamples(_)
TotalSamples(bufs) ==
    IF bufs = <<>> THEN 0 ELSE NumSamples(Head(bufs)) + TotalSamples(Tail(bufs))

\* C2: the model is loaded before the first segment is processed, and once
\* generate_emotion_audio has loaded it and then returned or raised, both
\* handles are None again.
C2_UnloadedOnEveryExit ==
    /\ (pc = "loop" \/ produced # <<>>) => loaded
    /\ pc = "loop" => (_model = "loaded" /\ _vocoder = "loaded")
    /\ (pc = "done" /\ loaded) => (_model = "None" /\ _vocoder = "None")

\* the job raised out of the loop after one segment had been synthesized
C2_Witness ==
    /\ pc = "done"
    /\ loaded
    /\ exc = "InferError"
    /\ Len(produced) = 2

\* C4: a transcript that parses to no segments ends in the ValueError of the
\* entry check; no output file is written.
C4_EmptyTranscriptFails ==
    (pc # "start" /\ parse_tagged_text(text) = <<>>) =>
        /\ pc = "done"
        /\ exc = "ValueError: No text segments found to generate audio"
        /\ ~output_file.written

\* a whitespace-only transcript was rejected
C4_Witness ==
    /\ pc = "done"
    /\ text # <<>>
    /\ segments = <<>>
    /\ exc = "ValueError: No text segments found to generate audio"

\* C5: a silence segment whose content float() rejects contributes nothing
\* and does not end the loop; the buffers of the other segments are
\* assembled in segment order.
C5_InvalidSilenceSkipped ==
    /\ \A i \in 1..Len(produced) :
          IsInvalidSilence(segments[i]) =>
              /\ produced[i].kind = "skipped"
              /\ produced[i].buf = <<>>
              /\ idx > i
    /\ (loaded /\ pc \in {"finally", "done"} /\ idx <= Len(segments))
           => ~IsInvalidSilence(segments[idx])
    /\ pc \in {"loop", "finally", "done"} => all_audio_segments = Contributed(produced)
    /\ output_file.written => output_file.audio = Joined(Contributed(produced))

\* an invalid silence between two segments that were assembled
C5_Witness ==
    /\ output_file.written
    /\ Len(produced) = 3
    /\ IsInvalidSilence(segments[2])
    /\ produced[1].kind = "speech"
    /\ produced[3].kind = "speech"
    /\ output_file.audio = produced[1].buf \o produced[3].buf

\* a silence segment whose duration float() or generate_silence rejects
IsSkippedSilence(seg) ==
    /\ seg[1] = SILENCE
    /\ LET duration == float(seg[2]) IN
       \/ ~duration.ok
       \/ generate_silence(duration.num, duration.den, DefaultSampleRate).raises

\* C29: when every segment of a non-empty parsed transcript is a silence
\* segment skipped as invalid, generate_emotion_audio raises ValueError
\* "No audio segments were generated", writes no output file and has
\* unloaded the model when the error reaches the caller.
C29_AllSkippedRaisesUnloaded ==
    (/\ pc = "done"
     /\ loaded
     /\ segments # <<>>
     /\ \A i \in 1..Len(segments) : IsSkippedSilence(segments[i])) =>
        /\ exc = "ValueError: No audio segments were generated"
        /\ ~output_file.written
        /\ _model = "None"
        /\ _vocoder = "None"

\* two silences, one not a number and one negative, were both skipped
C29_Witness ==
    /\ pc = "done"
    /\ Len(segments) = 2
    /\ Len(produced) = 2
    /\ ~float(segments[1][2]).ok
    /\ segments[2] = <<SILENCE, <<"-", "2">>>>
    /\ \A i \in 1..2 : produced[i].kind = "skipped"
    /\ exc = "ValueError: No audio segments were generated"

\* C6: the reference path of every speech segment is the label's own file
\* when that file exists and the neutral file otherwise; with the neutral
\* file in place the path always exists.
C6_ReferenceFallback ==
    \A i \in 1..Len(produced) :
        produced[i].kind \in {"speech", "failed"} =>
            LET emotion == segments[i][1] IN
            /\ emotion \notin emotion_files => produced[i].ref = EmotionFile(NEUTRAL)
            /\ emotion \in emotion_files => produced[i].ref = EmotionFile(emotion)
            /\ NEUTRAL \in emotion_files => PathExists(produced[i].ref)

\* a label without a file was synthesized with the neutral reference
C6_Witness ==
    \E i \in 1..Len(produced) :
        /\ produced[i].kind = "speech"
        /\ segments[i][1] = <<"scared">>
        /\ <<"scared">> \notin emotion_files
        /\ produced[i].ref = EmotionFile(NEUTRAL)

\* C7: the written audio is the per-segment buffers in segment order and
\* nothing else, its sample count their sum, a single buffer unchanged; the
\* written rate is that of the last speech segment, or 24000 without one.
C7_Assembled ==
    output_file.written =>
        /\ output_file.audio = Joined(Contributed(produced))
        /\ \A k \in 1..Len(output_file.audio) : \A l \in 1..Len(output_file.audio) :
              (k < l /\ output_file.audio[k].src # 0 /\ output_file.audio[l].src # 0)
                  => output_file.audio[k].src < output_file.audio[l].src
        /\ NumSamples(output_file.audio) = TotalSamples(Contributed(produced))
        /\ Len(Contributed(produced)) = 1 => output_file.audio = Contributed(produced)[1]
        /\ output_file.rate = LastSpeechRate(Len(produced) + 1)

\* silence, then two speech segments, the last one at 22050 Hz
C7_Witness ==
    /\ output_file.written
    /\ Len(produced) = 3
    /\ produced[1].kind = "silence"
    /\ produced[2].kind = "speech" /\ produced[2].rate = DefaultSampleRate
    /\ produced[3].kind = "speech" /\ produced[3].rate = 22050
    /\ output_file.rate = 22050
    /\ NumSamples(output_file.audio) = 48008

IsZeros(buf, count) ==
    /\ NumSamples(buf) = count
    /\ \A k \in 1..Len(buf) : buf[k].src = 0

\* C8 as stated: every silence segment of duration d yields int(d * r) zero
\* samples at the rate r in effect
C8_AsStated ==
    \A i \in 1..Len(produced) :
        (segments[i][1] = SILENCE /\ float(segments[i][2]).ok) =>
            LET d == float(segments[i][2])
                count == int(d.num * LastSpeechRate(i), d.den)
            IN  produced[i].kind = "silence" /\ IsZeros(produced[i].buf, count)

\* C8, amended: a silence segment of duration d yields int(d * r) zero
\* samples when that count is not negative, r being 24000 before the first
\* speech segment of the job and the rate of the last speech segment after
\* it; with a negative count the segment is skipped.
C8_SilenceSamples ==
    \A i \in 1..Len(produced) :
        (segments[i][1] = SILENCE /\ float(segments[i][2]).ok) =>
            LET d == float(segments[i][2])
                count == int(d.num * LastSpeechRate(i), d.den)
            IN  IF count >= 0
                THEN produced[i].kind = "silence" /\ IsZeros(produced[i].buf, count)
                ELSE produced[i].kind = "skipped" /\ produced[i].buf = <<>>

\* a quarter of a second of silence after speech at 22050 Hz: 5512 samples
C8_Witness ==
    \E i \in 2..Len(produced) :
        /\ produced[i - 1].kind = "speech" /\ produced[i - 1].rate = 22050
        /\ segments[i] = <<SILENCE, <<".", "2", "5">>>>
        /\ produced[i].kind = "silence"
        /\ NumSamples(produced[i].buf) = 5512

(***************************************************************************)
(* Claims about merge_audio_with_melody.                                   *)
(***************************************************************************)
\* C9: merge_audio_with_melody always exports audio as long as the podcast,
\* whatever the length of the melody.
C9_OutputDurationIsPodcast ==
    mpc = "done" =>
        /\ merge.raised = "none"
        /\ merge.exported
        /\ Len(merge.merged_audio) = Len(podcast)

\* C9 for a melody of at least 1 ms: the export is as long as the podcast
C9_NonEmptyMelody ==
    (mpc = "done" /\ Len(melody) >= 1) =>
        /\ merge.raised = "none"
        /\ merge.exported
        /\ Len(merge.merged_audio) = Len(podcast)
        /\ \A i \in 1..Len(podcast) : merge.merged_audio[i].fg = podcast[i]

\* C10: a melody shorter than the podcast is repeated (podcast // melody) + 1
\* times, which covers the podcast, and truncated to the podcast's length; a
\* melody that is not shorter is truncated only.
C10_TileThenTruncate ==
    mpc = "done" =>
        IF Len(melody) < Len(podcast)
        THEN /\ merge.raised = "none"
             /\ Len(melody) # 0 => merge.repeat_count = (Len(podcast) \div Len(melody)) + 1
             /\ Len(merge.tiled) = merge.repeat_count * Len(melody)
             /\ Len(merge.tiled) >= Len(podcast)
             /\ Len(merge.extended_melody) = Len(podcast)
        ELSE /\ merge.raised = "none"
             /\ merge.repeat_count = 0
             /\ merge.extended_melody = SubSeq(melody, 1, Len(podcast))

\* C10 for a melody of at least 1 ms; the truncated track is the melody
\* played round and round
C10_NonEmptyMelody ==
    (mpc = "done" /\ Len(melody) >= 1) =>
        /\ merge.raised = "none"
        /\ Len(merge.extended_melody) = Len(podcast)
        /\ \A i \in 1..Len(podcast) :
              merge.extended_melody[i] = melody[((i - 1) % Len(melody)) + 1]
        /\ IF Len(melody) < Len(podcast)
           THEN /\ merge.repeat_count = (Len(podcast) \div Len(melody)) + 1
                /\ Len(merge.tiled) = merge.repeat_count * Len(melody)
                /\ Len(merge.tiled) >= Len(podcast)
           ELSE merge.repeat_count = 0

(***************************************************************************)
(* video_clipper.py                                                        *)
(***************************************************************************)
\* C11: extract_random_segment uses the duration min(requested, source),
\* starts in [0, source - duration], so start + duration <= source; a request
\* at least as long as the source gives the whole source from offset 0.
C11_SegmentInsideSource ==
    call.fn = "extract_random_segment" =>
        LET requested == call.target_duration_seconds
            source == call.video_duration
        IN  /\ call.t = IF requested <= source THEN requested ELSE source
            /\ 0 <= call.ss
            /\ call.ss <= source - call.t
            /\ call.ss + call.t <= source
            /\ requested >= source => call.ss = 0 /\ call.t = source

\* more seconds requested than the source has
C11_Witness ==
    /\ call.fn = "extract_random_segment"
    /\ call.target_duration_seconds > call.video_duration
    /\ call.video_duration > 1
    /\ call.raised = "none"

\* C12: add_audio_to_video encodes an output as long as the shorter of the
\* video and the audio, with the video stream of the video input and the
\* audio stream of the audio input and nothing else.
C12_ShorterOfBoth ==
    call.fn = "add_audio_to_video" =>
        LET shorter == IF call.video_duration <= call.audio_duration
                       THEN call.video_duration ELSE call.audio_duration
        IN  /\ call.t = shorter
            /\ call.raised = "none" => call.out_duration = shorter
            /\ call.streams = <<[input |-> "video_input", stream |-> "v"],
                                [input |-> "audio_input", stream |-> "a"]>>

\* an audio longer than the video it is added to
C12_Witness ==
    /\ call.fn = "add_audio_to_video"
    /\ call.video_duration < call.audio_duration
    /\ call.raised = "none"
    /\ call.out_duration = call.video_duration

\* C13: for every frame size the crop of convert_to_shorts_format is full
\* height and floor(9h/16) wide when the source is wider than 9:16, full
\* width and floor(16w/9) high otherwise, centred on the cropped axis, inside
\* the frame, a function of the size alone, and scaled to 1080x1920.
C13_CropInsideCentred ==
    call.fn = "convert_to_shorts_format" =>
        LET w == call.input_width
            h == call.input_height
            c == call.vf.crop
        IN  /\ IF 16 * w > 9 * h
               THEN /\ c.crop_height = h
                    /\ c.crop_width = (9 * h) \div 16
                    /\ c.crop_x = (w - c.crop_width) \div 2
                    /\ c.crop_y = 0
               ELSE /\ c.crop_width = w
                    /\ c.crop_height = (16 * w) \div 9
                    /\ c.crop_y = (h - c.crop_height) \div 2
                    /\ c.crop_x = 0
            /\ c.crop_x >= 0
            /\ c.crop_y >= 0
            /\ c.crop_x + c.crop_width <= w
            /\ c.crop_y + c.crop_height <= h
            /\ (w - c.crop_width - c.crop_x) - c.crop_x \in {0, 1}
            /\ (h - c.crop_height - c.crop_y) - c.crop_y \in {0, 1}
            /\ call.vf.scale_width = 1080
            /\ call.vf.scale_height = 1920

\* a 1920x1080 source: 607 columns kept, 656 dropped on the left
C13_Witness ==
    /\ call.fn = "convert_to_shorts_format"
    /\ call.input_width = 1920
    /\ call.input_height = 1080
    /\ call.vf.crop = [crop_width |-> 607, crop_height |-> 1080,
                       crop_x |-> 656, crop_y |-> 0]

\* C14: a source that is exactly 9:16 is cropped to its whole frame.
C14_WholeFrameAtTarget ==
    (call.fn = "convert_to_shorts_format" /\ 16 * call.input_width = 9 * call.input_height) =>
        call.vf.crop = [crop_width |-> call.input_width,
                        crop_height |-> call.input_height,
                        crop_x |-> 0, crop_y |-> 0]

\* the 1080x1920 output of an earlier conversion, converted again
C14_Witness ==
    /\ call.fn = "convert_to_shorts_format"
    /\ call.input_width = 1080
    /\ call.input_height = 1920
    /\ call.vf.crop.crop_height = 1920
    /\ call.raised = "none"

\* C19: after the import GPU_CONFIG is, and stays, what the decision table
\* gives for the host: h264_nvenc iff nvidia-smi succeeds and ffmpeg lists
\* it, else h264_vaapi iff nvidia-smi succeeds and ffmpeg lists it, else
\* libx264 without GPU; aac always; every encode call uses that profile.
C19_CodecDecisionTable ==
    vpc # "import" =>
        LET smi == probe.nvidia_smi = "ok"
            nvenc == smi /\ probe.ffmpeg = "ok" /\ "h264_nvenc" \in probe.stdout
            vaapi == ~nvenc /\ smi /\ probe.ffmpeg = "ok" /\ "h264_vaapi" \in probe.stdout
        IN  /\ GPU_CONFIG.audio_codec = "aac"
            /\ (GPU_CONFIG.gpu_available /\ GPU_CONFIG.video_codec = "h264_nvenc") <=> nvenc
            /\ (GPU_CONFIG.gpu_available /\ GPU_CONFIG.video_codec = "h264_vaapi") <=> vaapi
            /\ (~nvenc /\ ~vaapi) =>
                   (~GPU_CONFIG.gpu_available /\ GPU_CONFIG.video_codec = "libx264")
            /\ call.fn # "none" =>
                   /\ call.codec.vcodec = GPU_CONFIG.video_codec
                   /\ call.codec.acodec = GPU_CONFIG.audio_codec
                   /\ call.codec.params = GPU_CONFIG.gpu_params

\* a host with nvidia-smi and VAAPI but no NVENC, after an encode call
C19_Witness ==
    /\ vpc = "called"
    /\ probe.nvidia_smi = "ok"
    /\ probe.stdout = {"h264_vaapi"}
    /\ GPU_CONFIG.video_codec = "h264_vaapi"
    /\ call.fn = "extract_random_segment"
    /\ call.codec.vcodec = "h264_vaapi"

\* C27: the shorts derivative never exceeds 59 seconds:
\* extract_shorts_segment caps the requested duration at 59,
\* create_shorts_version requests min(audio duration, 59), and the final
\* shorts video has a duration of at most 59 s for every audio and source
\* duration.
C27_ShortsAtMost59 ==
    /\ shorts.capped # 0 =>
          shorts.capped = (IF shorts.requested > 59 THEN 59
                           ELSE shorts.requested)
    /\ (shorts.fn = "create_shorts_version" /\ shorts.requested # 0) =>
          shorts.requested = (IF shorts.audio_duration > 59 THEN 59
                              ELSE shorts.audio_duration)
    /\ shorts.segment <= 59
    /\ shorts.converted <= 59
    /\ shorts.final <= 59
    /\ hpc = "done" =>
          /\ shorts.final >= 1
          /\ shorts.final <= shorts.audio_duration
          /\ shorts.final <= shorts.source_duration

\* an audio and a source of 60 s each gave a shorts video of 59 s
C27_Witness ==
    /\ hpc = "done"
    /\ shorts.audio_duration = 60
    /\ shorts.source_duration = 60
    /\ shorts.final = 59

(***************************************************************************)
(* youtube_uploader.py                                                     *)
(***************************************************************************)
\* C15: _resumable_upload makes at most 11 upload attempts, has raised once
\* the 11th has failed, and ends with a response or an exception.
C15_BoundedRetriesThenResult ==
    /\ attempts.calls - attempts.progress <= 11
    /\ attempts.failed >= 11 => upc = "raised"
    /\ upc \in {"returned", "raised"} =>
          \/ upload.kind = "raised"
          \/ upload = [kind |-> "returned", value |-> "response with id"]

\* C16: upload_video returns normally only with the response that carries
\* the video id.
C16_ReturnsResponseWithId ==
    upc = "returned" =>
        /\ response = "with id"
        /\ upload.value = "response with id"

\* C25: in _resumable_upload an HttpError whose status is not 500, 502, 503
\* or 504 is raised again at once, with no sleep and no further attempt; one
\* with such a status is retried, until the retry ceiling.
C25_OnlyListedStatusesRetried ==
    [][/\ (attempts'.calls = attempts.calls + 1 /\ attempts'.status # 0) =>
             IF attempts'.status \notin {500, 502, 503, 504}
             THEN /\ upc' = "raised"
                  /\ upload'.value = "HttpError"
                  /\ attempts'.sleeps = attempts.sleeps
             ELSE IF retry < 10
             THEN /\ upc' = "loop"
                  /\ retry' = retry + 1
                  /\ attempts'.sleeps = attempts.sleeps + 1
             ELSE /\ upc' = "raised"
                  /\ upload'.value = "Exception: No longer attempting to retry."
       /\ upc = "raised" => attempts' = attempts]_vars

\* a 403 ended the upload after an earlier failure had been retried
C25_Witness ==
    /\ upc = "raised"
    /\ upload.value = "HttpError"
    /\ attempts.status = 403
    /\ attempts.failed = 2
    /\ attempts.sleeps = 1

(***************************************************************************)
(* main.py, the script                                                     *)
(***************************************************************************)
\* C17: when a run has succeeded, none of the files it wrote under output/
\* is left.
C17_AllRunFilesDeleted ==
    stage = "done" => \A k \in OutputKinds : Path(file_name, k) \notin files

\* the file a stage writes
WrittenBy(s) ==
    CASE s = "generate_emotion_audio" -> {"podcast.wav"}
      [] s = "get_random_audio_segment" -> {"melody.wav"}
      [] s = "merge_audio_with_melody" -> {"merged.wav"}
      [] s = "extract_random_segment" -> {"video_segment.mp4"}
      [] s = "add_audio_to_video" -> {"video_with_audio.mp4"}
      [] s = "extract_shorts_segment" -> {"shorts_segment.mp4"}
      [] s = "convert_to_shorts_format" -> {"shorts_converted.mp4"}
      [] s = "add_audio_to_shorts" -> {"shorts.mp4"}
      [] OTHER -> {}

\* C18: the stages start in the order speech, melody, mix, video extract,
\* add audio, shorts (extract, convert, add audio), Slack, cleanup; when one
\* starts, every stage before it has returned and its file is written; after
\* a stage has failed no stage starts, and a failure before the Slack stage
\* means nothing was sent.
C18_StagesInOrder ==
    LET order == <<"get_latest_article", "generate_podcast",
                   "generate_emotion_audio", "get_random_audio_segment",
                   "merge_audio_with_melody", "extract_random_segment",
                   "add_audio_to_video", "extract_shorts_segment",
                   "convert_to_shorts_format", "add_audio_to_shorts",
                   "send_audio_file", "cleanup">>
        failed == failure.stage # "none"
        returned == IF failed THEN SubSeq(ran, 1, Len(ran) - 1) ELSE ran
    IN  /\ Len(ran) <= Len(order)
        /\ ran = SubSeq(order, 1, Len(ran))
        /\ stage \notin {"done", "aborted"} => stage = order[Len(ran) + 1]
        /\ (\A i \in 1..Len(ran) : ran[i] # "cleanup") =>
               \A i \in 1..Len(returned) : \A k \in WrittenBy(returned[i]) :
                   Path(file_name, k) \in files
        /\ failed => /\ stage = "aborted"
                     /\ ran # <<>>
                     /\ ran[Len(ran)] = failure.stage
        /\ (failed /\ failure.stage # "cleanup") => sent = {}
        /\ sent # {} => \E i \in 1..Len(ran) : ran[i] = "send_audio_file"

\* the shorts conversion fails: the run stops there, nothing is sent
C18_Witness ==
    /\ stage = "aborted"
    /\ failure.stage = "convert_to_shorts_format"
    /\ Len(ran) = 9
    /\ sent = {}
    /\ Path(file_name, "shorts_segment.mp4") \in files

(***************************************************************************)
(* Unclosed and mismatched markup.                                         *)
(***************************************************************************)
\* <label> stands at i
IsOpen(t, i, label) ==
    /\ i + Len(label) + 2 <= Len(t)
    /\ Slice(t, i, i + Len(label) + 2) = <<"<">> \o label \o <<">">>

\* </label> stands at j
IsClose(t, j, label) ==
    /\ j + Len(label) + 3 <= Len(t)
    /\ Slice(t, j, j + Len(label) + 3) = <<"<", "/">> \o label \o <<">">>

Labels == {<<w>> : w \in WordAtoms}

\* the content of the pair opened at i: up to the first </label> after it
PairContent(t, i, label) ==
    LET from == i + Len(label) + 2
        closes == {j \in from..Len(t) : IsClose(t, j, label)}
        first == CHOOSE j \in closes : \A k \in closes : j <= k
    IN  Slice(t, from, first)

\* the opening tag at i has a closing tag of its label after it
Closed(t, i, label) ==
    /\ IsOpen(t, i, label)
    /\ \E j \in (i + Len(label) + 2)..Len(t) : IsClose(t, j, label)

\* some opening tag has a closing tag of its label after it
HasPair(t) == \E label \in Labels : \E i \in 0..Len(t) : Closed(t, i, label)

RECURSIVE CountOpens(_)
CountOpens(s) ==
    IF s = <<>> THEN 0
    ELSE (IF Head(s) = "<" THEN 1 ELSE 0) + CountOpens(Tail(s))

\* the "<" of the segments with this property
RECURSIVE OpensIn(_, _)
OpensIn(segs, neutral) ==
    IF segs = <<>> THEN 0
    ELSE (IF (Head(segs)[1] = NEUTRAL) = neutral THEN CountOpens(Head(segs)[2]) ELSE 0)
         + OpensIn(Tail(segs), neutral)

NeutralOf(run) == IF strip(run) = <<>> THEN <<>> ELSE <<<<NEUTRAL, strip(run)>>>>

\* a transcript read piece by piece: each tagged pair is a segment, all that
\* lies between the pairs, stray markup included, is neutral text
RECURSIVE PlainReading(_, _)
PlainReading(d, run) ==
    IF d = <<>> THEN NeutralOf(run)
    ELSE IF Head(d).kind = "raw" THEN PlainReading(Tail(d), run \o Head(d).body)
    ELSE NeutralOf(run) \o <<<<Head(d).label, strip(Head(d).body)>>>>
         \o PlainReading(Tail(d), <<>>)

\* the stray markup of d is unclosed or mismatched: no stray </scared>, the
\* only label a stray opening tag has
StrayUnclosed(d) ==
    /\ \E i \in 1..Len(d) : d[i].kind = "raw" /\ d[i].body = <<"<", "scared", ">">>
    /\ \A i \in 1..Len(d) : d[i].kind = "raw" => d[i].body # <<"<", "/", "scared", ">">>

\* C20 as stated: unclosed and mismatched markup is not paired; it and the
\* text around it come out as neutral text.
C20_AsStated ==
    (ppc = "parsed" /\ StrayUnclosed(doc)) => segments = PlainReading(doc, <<>>)

\* C20: no text is an error.  Where no opening tag has a closing tag of its
\* label after it, the whole text is one neutral segment.  Otherwise an
\* opening tag is paired with the first closing tag of its label after it,
\* whatever lies between, and the markup outside the pairs is neutral text.
C20_UnpairedMarkupIsNeutral ==
    ppc = "parsed" =>
        /\ ~HasPair(text) => segments = NeutralOf(text)
        /\ \A k \in 1..Len(segments) :
               segments[k][1] # NEUTRAL =>
                   \E i \in 0..Len(text) :
                       /\ Closed(text, i, segments[k][1])
                       /\ segments[k][2] = strip(PairContent(text, i, segments[k][1]))
        /\ LET ms == finditer(text, 0)
               outside == {p \in 0..(Len(text) - 1) : p \notin Covered(text, ms)}
           IN  OpensIn(segments, TRUE) = Cardinality({p \in outside : At(text, p) = "<"})

\* <scared>hi</silence>: nothing pairs, the whole text is neutral
C20_Witness ==
    /\ ppc = "parsed"
    /\ doc = <<Raw(<<"<", "scared", ">">>), Raw(<<"hi">>), Raw(<<"<", "/", "silence", ">">>)>>
    /\ ~HasPair(text)
    /\ segments = <<<<NEUTRAL, text>>>>

(***************************************************************************)
(* Blank spans.                                                            *)
(***************************************************************************)
\* C21: no neutral segment is empty, and the segments are one per matched
\* pair and one per untagged run that is not blank: a whitespace-only span
\* before, between or after tags gives no segment.
C21_NoEmptyNeutral ==
    ppc = "parsed" =>
        LET ms == finditer(text, 0)
            spoken == {a \in UntaggedStarts(text, ms) :
                          \E k \in a..(UntaggedEnd(text, ms, a) - 1) : ~IsSpace(At(text, k))}
        IN  /\ \A k \in 1..Len(segments) :
                   segments[k][1] = NEUTRAL => segments[k][2] # <<>>
            /\ Len(segments) = Len(ms) + Cardinality(spoken)

\* <silence>2</silence>, a blank, <scared>hi</scared>: two segments
C21_Witness ==
    /\ ppc = "parsed"
    /\ doc = <<Tag(SILENCE, <<"2">>), Raw(<<" ">>), Tag(<<"scared">>, <<"hi">>)>>
    /\ segments = <<<<SILENCE, <<"2">>>>, <<<<"scared">>, <<"hi">>>>>>

(***************************************************************************)
(* Errors of the external services and of the encoder.                     *)
(***************************************************************************)
\* the failures C22 is about: the LLM call, the TTS inference, an ffmpeg run
ExternalErrors == {"APIError", "InferError", "ffmpeg.Error"}

\* C22 as stated: such a failure reaches the caller unchanged, is not
\* retried, and ends the job.
C22_AsStated ==
    failure.origin \in ExternalErrors =>
        /\ failure.exc = failure.origin
        /\ stage = "aborted"
        /\ Cardinality({i \in 1..Len(ran) : ran[i] = failure.stage}) = 1

\* C22: such a failure is not retried and ends the job; the LLM and TTS
\* errors reach the caller unchanged, an ffmpeg.Error reaches it as a
\* RuntimeError.
C22_PropagatesAndAborts ==
    failure.origin \in ExternalErrors =>
        /\ failure.exc = IF failure.origin = "ffmpeg.Error"
                         THEN "RuntimeError" ELSE failure.origin
        /\ stage = "aborted"
        /\ ran[Len(ran)] = failure.stage
        /\ Cardinality({i \in 1..Len(ran) : ran[i] = failure.stage}) = 1
        /\ sent = {}

\* ffmpeg fails while the audio is added to the video segment
C22_Witness ==
    /\ failure.stage = "add_audio_to_video"
    /\ failure.origin = "ffmpeg.Error"
    /\ failure.exc = "RuntimeError"
    /\ stage = "aborted"

(***************************************************************************)
(* waveform.py                                                             *)
(***************************************************************************)
\* C23: run on an input path that does not exist, the utility exits with a
\* non-zero status and writes no video.
C23_MissingInputExitsNonZero ==
    (wpc = "exited" /\ argv.audio_path = "absent.mp3") =>
        /\ exit_status # 0
        /\ video_out = "none"

(***************************************************************************)
(* slack.py                                                                *)
(***************************************************************************)
\* the files a call names in the branch it takes
FilesOfCall ==
    IF slack_args.file_uploads.list # <<>>
    THEN slack_args.file_uploads.list
    ELSE IF slack_args.file_path # "none" THEN <<slack_args.file_path>>
    ELSE <<>>

SomeFileMissing ==
    \E i \in 1..Len(FilesOfCall) :
        FilesOfCall[i] \notin {"here1.mp3", "here2.mp4"}

SlackEnded == spc \in {"returned", "raised"}

\* C24: send_audio_file checks every file before uploading: a file that
\* does not exist gives FileNotFoundError and no upload call; neither
\* file_uploads nor file_path gives ValueError; when all files exist there
\* is exactly one upload call, carrying all the files and the comment.
C24_ChecksThenOneUpload ==
    SlackEnded =>
        /\ (FilesOfCall # <<>> /\ SomeFileMissing) =>
              /\ slack_raised = "FileNotFoundError"
              /\ slack_calls = <<>>
        /\ FilesOfCall = <<>> =>
              /\ slack_raised = "ValueError"
              /\ slack_calls = <<>>
        /\ (FilesOfCall # <<>> /\ ~SomeFileMissing) =>
              /\ Len(slack_calls) = 1
              /\ slack_raised \in {"none", "SlackApiError"}
              /\ slack_calls[1].initial_comment = slack_args.initial_comment
              /\ \/ slack_calls[1].file_uploads = FilesOfCall
                 \/ /\ slack_calls[1].file_uploads = <<>>
                    /\ <<slack_calls[1].file>> = FilesOfCall

\* a list whose second file is missing was refused before any upload
C24_Witness ==
    /\ spc = "raised"
    /\ slack_args.file_uploads.list = <<"here1.mp3", "gone.mp3">>
    /\ slack_raised = "FileNotFoundError"
    /\ slack_calls = <<>>

(***************************************************************************)
(* audio_clipper.py                                                        *)
(***************************************************************************)
ExactSegment ==
    /\ cpc = "returned"
    /\ clip.segment_ms = duration_sec * 1000
    /\ clip.audio_length_ms >= duration_sec * 1000
    /\ clip.start_ms \in 0..(clip.audio_length_ms - duration_sec * 1000)
    /\ clip.end_ms = clip.start_ms + duration_sec * 1000
    /\ clip.end_ms <= clip.audio_length_ms

\* C26: for every background file length and every requested duration,
\* get_random_audio_segment returns a segment of exactly duration_sec * 1000
\* ms: a shorter file is repeated until it covers the request, the start
\* lies in [0, length - duration] and start + duration stays within the
\* (repeated) audio.
C26_ExactDurationAlways ==
    (cpc \in {"returned", "raised"} /\ background_dir # {}) => ExactSegment

\* the same for every background file of 1 ms or more
C26_NonEmptyFile ==
    (cpc \in {"returned", "raised"} /\ background_dir # {}
        /\ 0 \notin background_dir) => ExactSegment

\* a file one millisecond short of two seconds was repeated and cut inside
C26_NonEmptyFileWitness ==
    /\ cpc = "returned"
    /\ background_dir = {1999}
    /\ duration_sec = 2
    /\ clip.repeat_count = 2
    /\ clip.start_ms = 1998

(***************************************************************************)
(* rss_reader.py                                                           *)
(***************************************************************************)
\* the title the file held before the last call, "None" when it held none
TitleBefore ==
    IF rss.file_before \in {"<absent>", "<corrupt>"} THEN "None"
    ELSE rss.file_before

\* the entries of the last call's feed whose title is not the persisted one
NewEntries ==
    {i \in 1..Len(rss.feed) :
        rss.feed[i].has = "no title" \/ rss.feed[i].title # TitleBefore}

\* what the last call did is what the claim says of a call
CallAsClaimed ==
    /\ rss.returned # "None" => rss.returned # TitleBefore
    /\ IF rss.fetch = "ok" /\ NewEntries # {}
       THEN LET first == CHOOSE i \in NewEntries : \A j \in NewEntries : i <= j
            IN  /\ rss.feed[first].has # "no title"
                /\ rss.returned = rss.feed[first].title
       ELSE /\ rss.returned = "None"
            /\ title_file = rss.file_before

\* C28: across any sequence of get_latest_article calls, the persisted
\* title is the title of the article returned most recently; a call never
\* returns an entry with the persisted title: it returns the first entry
\* of the feed with a different title, and returns None and leaves the
\* persisted title alone when the feed is empty, every entry matches or
\* the fetch fails.
C28_PersistedIsLastReturned ==
    rss.fetch # "none" =>
        /\ last_returned # "none" => title_file = last_returned
        /\ CallAsClaimed

\* the same, while every entry of every feed so far carried all four
\* attributes
C28_CompleteEntries ==
    [][(\A i \in 1..Len(rss'.feed) : rss'.feed[i].has = "all") =>
          /\ CallAsClaimed'
          /\ IF rss'.returned = "None" THEN title_file' = title_file
             ELSE title_file' = rss'.returned /\ last_returned' = rss'.returned
      ]_vars

\* a call skipped the entry with the persisted title and returned the next
C28_CompleteEntriesWitness ==
    /\ rss.file_before = "t1"
    /\ rss.feed = <<[title |-> "t1", has |-> "all"],
                    [title |-> "t2", has |-> "all"]>>
    /\ rss.returned = "t2"
    /\ title_file = "t2"

(***************************************************************************)
(* f5tts.py, the handles                                                   *)
(***************************************************************************)
HandlesPaired ==
    /\ (_model = "None") <=> (_vocoder = "None")
    /\ \A i \in 1..Len(handle_calls) :
          LET c == handle_calls[i] IN
          /\ (c.fn = "load_model_resources" /\ c.model_before # "None") =>
                (c.model_after = c.model_before
                 /\ c.vocoder_after = c.vocoder_before)
          /\ (c.fn = "unload_model_resources" /\ c.model_before = "None") =>
                (c.model_after = c.model_before
                 /\ c.vocoder_after = c.vocoder_before)
          /\ c.inferred # "model, no vocoder"

\* C30: across any sequence of load_model_resources and
\* unload_model_resources calls, a load that fails part-way included, _model
\* is None exactly when _vocoder is None; load is a no-op when already
\* loaded and unload is a no-op when nothing is loaded, so inference never
\* runs with a model but no vocoder.
C30_HandlesStayPaired == HandlesPaired

\* the same, while load_vocoder has not raised
C30_WhileVocoderLoads ==
    (\A i \in 1..Len(handle_calls) :
        handle_calls[i].outcome # "load_vocoder raises") => HandlesPaired

\* a second load found the handles loaded and left them alone
C30_WhileVocoderLoadsWitness ==
    /\ Len(handle_calls) = 2
    /\ handle_calls[1].outcome = "ok"
    /\ handle_calls[2].fn = "load_model_resources"
    /\ handle_calls[2].outcome = "already loaded"
    /\ _model = "loaded"
    /\ _vocoder = "loaded"

====
